---- MODULE Spec2Model ----
(***************************************************************************)
(* State-machine model of the llama-stack playground's streaming relays    *)
(* (routes/playground.py): the plain chat and RAG streams and the          *)
(* tool-calling stream in its two agent modes; and of the LlamaStackApi    *)
(* object (modules/api.py): the token extractor and the client factory     *)
(* with its endpoint-discovery cache.  Each part has its own variables and *)
(* its own specification; a specification leaves the other parts idle.     *)
(*                                                                         *)
(* Python str values are TLA+ strings, concatenated with \o.  Values that  *)
(* come out of the JSON library or off SDK objects are tagged records:     *)
(*   [t |-> "null"], [t |-> "str", s |-> ...], [t |-> "num", n |-> ...],   *)
(*   [t |-> "list", items |-> <<...>>], [t |-> "obj", pairs |-> <<<<k,v>>>>]*)
(*   [t |-> "text_item", text |-> ...]   an SDK object with a .text attr   *)
(***************************************************************************)
EXTENDS Integers, Sequences, FiniteSets, TLC

\* Longest upstream event sequence explored for one streamed request.
MaxEvents == 3
\* Most client constructions begun on the LlamaStackApi object.
MaxConstructions == 3
\* Most rows of an evaluated dataset.
MaxRows == 3

VARIABLES
    agent_type,            \* "ReAct" | "Regular": which handler tools.generate delegates to;
                           \* "Chat" | "Rag": the plain chat / RAG stream
    workload,              \* the event family the upstream serves this request from
    pc,                    \* "streaming" while the generator is live, "closed" once it returned
    consumed,              \* the upstream events pulled so far, in order
    ending,                \* how the generator ended: "none" | "exhausted" | "raised" | "returned"
    frames,                \* the SSE frames yielded so far, in order
    full_response,         \* the accumulated response buffer
    current_step_content,  \* ReAct: text of the step in progress
    final_answer,          \* ReAct: the answer captured from an inference step, or JNull
    tool_results,          \* ReAct: <<tool_name, content>> pairs collected from tool steps
    has_content            \* Regular: set once something was appended to the buffer

\* The token extractor (LlamaStackApi._get_jwt_token)
VARIABLES
    headers,               \* request.headers of the request being handled
    jwt_token,             \* what _get_jwt_token returned for it: a str or None
    earlier                \* an earlier request and what was returned for it, or NoRequest

\* The LlamaStackApi object and the client constructions in progress on it
VARIABLES
    mcp_endpoints_cache,   \* self._mcp_endpoints_cache: None or the endpoint map
    toolgroups,            \* the upstream registry: what client.toolgroups.list() returns now
    listings,              \* the number of client.toolgroups.list() calls issued so far
    constructions,         \* per request thread: the client construction it is in
    started                \* the number of client constructions begun so far

\* The request a route handler last answered
VARIABLES
    route_request,         \* the request: route, method, form of its body, upstream behaviour
    response,              \* the response returned for it
    upstream_calls         \* the upstream calls made for it, in order

\* An evaluation stream (app_eval.generate, native_eval.generate)
VARIABLES
    eval_route,            \* "app_eval" or "native_eval"
    rows,                  \* per row of the dataset: how its evaluation goes
    row_index,             \* i of the for loop: the rows handled so far
    output_res,            \* output_res: per result column, the rows recorded in it
    eval_frames,           \* the frames yielded so far
    eval_pc                \* "idle", "rows", "closed", or "raised" when generate raised

relay == <<agent_type, workload, pc, consumed, ending, frames, full_response,
           current_step_content, final_answer, tool_results, has_content>>
extractor == <<headers, jwt_token, earlier>>
factory == <<mcp_endpoints_cache, toolgroups, listings, constructions, started>>
\* What a streamed request leaves alone.
routing == <<route_request, response, upstream_calls>>
evaluating == <<eval_route, rows, row_index, output_res, eval_frames, eval_pc>>
\* What a streamed request leaves alone.
outsideRelay == <<extractor, factory, routing, evaluating>>

vars == <<relay, extractor, factory, routing, evaluating>>

----------------------------------------------------------------------------
(* Values *)

JNull == [t |-> "null"]
JStr(s) == [t |-> "str", s |-> s]
JNum(n) == [t |-> "num", n |-> n]
JList(items) == [t |-> "list", items |-> items]
JObj(pairs) == [t |-> "obj", pairs |-> pairs]
TextItem(s) == [t |-> "text_item", text |-> s]

\* Python truthiness of a value: None, "", 0, [] and {} are falsy.
Truthy(v) ==
    CASE v.t = "null" -> FALSE
      [] v.t = "str" -> v.s # ""
      [] v.t = "num" -> v.n # 0
      [] v.t = "list" -> v.items # <<>>
      [] v.t = "obj" -> v.pairs # <<>>
      [] OTHER -> TRUE

HasKey(obj, key) == \E i \in 1..Len(obj.pairs) : obj.pairs[i][1] = key

\* dict.get(key, default)
Get(obj, key, default) ==
    IF HasKey(obj, key)
    THEN obj.pairs[CHOOSE i \in 1..Len(obj.pairs) : obj.pairs[i][1] = key][2]
    ELSE default

\* The first n elements of a sequence (a Python slice [:n]).
Take(seq, n) == SubSeq(seq, 1, IF Len(seq) < n THEN Len(seq) ELSE n)

----------------------------------------------------------------------------
(* Fixed strings of the source *)

NoResponse == "No response generated"
\* The source's header starts with a check-mark emoji after the two newlines.
FinalAnswerHeader == "\n\n(check) **Final Answer:**\n"
FoundHeader == "\n\n**Here's what I found:**\n"
MissingPayload == "Missing payload attribute"
ParseFailed == "Failed to parse ReAct step"
ProcessFailed == "Failed to process ReAct step: "
ClusterError == "Error occurred in the Llama Stack Cluster: "
ProcessingError == "Error processing response: "
NoToolCalls == "No tool_calls present in step_details"
\* The source's Markdown code fence is three backquotes.
CodeFence == "~~~"

----------------------------------------------------------------------------
(* json.loads and str.strip, as tables over the texts the bounded inputs   *)
(* can spell.  Every other text the model can build is not valid JSON.     *)

\* The optional members of a ReAct structured-output document.
NoPart == [text |-> "", key |-> "", value |-> JNull]
Part(text, key, value) == [text |-> text, key |-> key, value |-> value]
ThoughtT == Part("\"thought\":\"t\"", "thought", JStr("t"))
ThoughtEmpty == Part("\"thought\":\"\"", "thought", JStr(""))
ActionValue == JObj(<< <<"tool_name", JStr("n")>>, <<"tool_params", JList(<<>>)>> >>)
ActionObj == Part("\"action\":{\"tool_name\":\"n\",\"tool_params\":[]}", "action", ActionValue)
ActionEmpty == Part("\"action\":{}", "action", JObj(<<>>))
ActionStr == Part("\"action\":\"s\"", "action", JStr("s"))
AnswerA == Part("\"answer\":\"a\"", "answer", JStr("a"))
AnswerNullStr == Part("\"answer\":\"null\"", "answer", JStr("null"))
AnswerEmpty == Part("\"answer\":\"\"", "answer", JStr(""))
AnswerNone == Part("\"answer\":null", "answer", JNull)

\* The documents explored: presence patterns of the three members, and each
\* unusual member value beside the two usual other members.
ReactDocs ==
    { <<NoPart, NoPart, NoPart>>, <<ThoughtT, NoPart, NoPart>>,
      <<NoPart, ActionObj, NoPart>>, <<NoPart, NoPart, AnswerA>>,
      <<ThoughtT, ActionObj, NoPart>>, <<ThoughtT, ActionObj, AnswerA>>,
      <<ThoughtEmpty, ActionObj, AnswerA>>, <<ThoughtT, ActionEmpty, AnswerA>>,
      <<ThoughtT, ActionStr, AnswerA>>, <<ThoughtT, ActionObj, AnswerNullStr>>,
      <<ThoughtT, ActionObj, AnswerEmpty>>, <<ThoughtT, ActionObj, AnswerNone>> }

Present(doc) == SelectSeq(doc, LAMBDA part : part.text # "")

RECURSIVE Join(_, _)
\* sep.join(parts)
Join(parts, sep) ==
    IF parts = <<>> THEN ""
    ELSE IF Len(parts) = 1 THEN parts[1]
    ELSE parts[1] \o sep \o Join(Tail(parts), sep)

DocText(doc) ==
    "{" \o Join([i \in 1..Len(Present(doc)) |-> Present(doc)[i].text], ",") \o "}"
DocValue(doc) ==
    JObj([i \in 1..Len(Present(doc)) |->
            <<Present(doc)[i].key, Present(doc)[i].value>>])

ResultsJSON == "{\"results\":[{\"name\":\"A\",\"description\":\"d\"}]}"
ResultsValue ==
    JObj(<< <<"results",
              JList(<<JObj(<< <<"name", JStr("A")>>, <<"description", JStr("d")>> >>)>>)>> >>)
TopKJSON == "{\"top_k\":[{\"title\":\"T\",\"url\":\"u\",\"content\":\" c \"}]}"
TopKValue ==
    JObj(<< <<"top_k",
              JList(<<JObj(<< <<"title", JStr("T")>>, <<"url", JStr("u")>>,
                              <<"content", JStr(" c ")>> >>)>>)>> >>)
DictJSON == "{\"k\":\"v\"}"
DictValue == JObj(<< <<"k", JStr("v")>> >>)
ListJSON == "[\"x\",{\"text\":\"y\"}]"
ListValue == JList(<<JStr("x"), JObj(<< <<"text", JStr("y")>> >>)>>)

JSONTable ==
    { [text |-> DocText(doc), value |-> DocValue(doc)] : doc \in ReactDocs }
    \cup { [text |-> ResultsJSON, value |-> ResultsValue],
           [text |-> TopKJSON, value |-> TopKValue],
           [text |-> DictJSON, value |-> DictValue],
           [text |-> ListJSON, value |-> ListValue],
           [text |-> "[1]", value |-> JList(<<JNum(1)>>)],
           [text |-> "null", value |-> JNull] }

JSONDecodeError == [t |-> "JSONDecodeError"]

\* json.loads(s) for a str s: the parsed value, or JSONDecodeError.
JsonLoads(s) ==
    IF \E e \in JSONTable : e.text = s
    THEN (CHOOSE e \in JSONTable : e.text = s).value
    ELSE JSONDecodeError

\* str.strip()
Strip(s) == IF s = " c " THEN "c" ELSE s

\* f"Result {i}"
ResultN(i) == CASE i = 1 -> "Result 1" [] i = 2 -> "Result 2" [] OTHER -> "Result 3"

----------------------------------------------------------------------------
(* Tool responses: normalisation and the end-of-stream summary *)

\* One item of a list-valued content: its .text, or the str itself.
ItemText(item) == IF item.t = "text_item" THEN item.text ELSE item.s

\* The unwrapping applied to a tool response's content: an object with a
\* .text attribute becomes that text, a list is joined with newlines, a str
\* or None is kept as it is.
NormalizeContent(content) ==
    IF content.t = "text_item" THEN JStr(content.text)
    ELSE IF content.t = "list"
         THEN JStr(Join([i \in 1..Len(content.items) |-> ItemText(content.items[i])], "\n"))
         ELSE content

\* _process_tool_execution(step_details, tool_results)
ProcessToolExecution(step_details, results) ==
    results \o [i \in 1..Len(step_details.tool_responses) |->
                  <<step_details.tool_responses[i].tool_name,
                    NormalizeContent(step_details.tool_responses[i].content)>>]

ComplexData(tool_name) == "\n**" \o tool_name \o "** was used but returned complex data.\n"

\* Python's `key in p` for a parsed dict or list.
In(key, p) ==
    IF p.t = "obj" THEN HasKey(p, key)
    ELSE IF p.t = "list"
         THEN \E i \in 1..Len(p.items) : p.items[i].t = "str" /\ p.items[i].s = key
         ELSE FALSE

TopKPart(result) ==
    "\n- **" \o Get(result, "title", JStr("Untitled")).s \o "**\n  "
    \o Strip(Get(result, "content", JStr("")).s)
    \o "\n  [Source](" \o Get(result, "url", JStr("")).s \o ")\n"

ResultPart(result, i) ==
    IF result.t = "obj"
    THEN LET name == Get(result, "name", Get(result, "title", JStr(ResultN(i))))
             description == Get(result, "description",
                                Get(result, "content", Get(result, "summary", JStr(""))))
         IN "\n- **" \o name.s \o "**\n  " \o description.s \o "\n"
    ELSE "\n- " \o result.s \o "\n"

DictPart(pair) ==
    IF pair[2].t = "str" /\ Len(pair[2].s) < 100
    THEN pair[1] \o ": " \o pair[2].s \o "\n"
    ELSE pair[1] \o ": [Complex data]\n"

ListPart(item) ==
    IF item.t = "str" THEN "- " \o item.s \o "\n"
    ELSE IF item.t = "obj" /\ HasKey(item, "text")
         THEN "- " \o Get(item, "text", JNull).s \o "\n"
         ELSE ""

\* The summary parts one collected tool result contributes.
FormatToolResult(tool_name, content) ==
    IF content.t # "str" THEN ComplexData(tool_name)        \* json.loads(None): TypeError
    ELSE LET p == JsonLoads(content.s) IN
         IF p.t = "JSONDecodeError" THEN ComplexData(tool_name)
         ELSE IF p.t \in {"null", "num"} THEN ComplexData(tool_name)   \* `in`: TypeError
         ELSE IF tool_name = "web_search" /\ In("top_k", p)
              THEN LET top == Take(Get(p, "top_k", JNull).items, 3)
                   IN Join([i \in 1..Len(top) |-> TopKPart(top[i])], "")
         ELSE IF In("results", p) /\ Get(p, "results", JNull).t = "list"
              THEN LET res == Take(Get(p, "results", JNull).items, 3)
                   IN Join([i \in 1..Len(res) |-> ResultPart(res[i], i)], "")
         ELSE IF p.t = "obj" /\ Len(p.pairs) > 0
              THEN LET items == Take(p.pairs, 5)
                   IN "\n" \o CodeFence \o "\n"
                      \o Join([i \in 1..Len(items) |-> DictPart(items[i])], "")
                      \o CodeFence \o "\n"
         ELSE IF p.t = "list" /\ Len(p.items) > 0
              THEN LET items == Take(p.items, 3)
                   IN Join([i \in 1..Len(items) |-> ListPart(items[i])], "")
         ELSE ""

\* _format_tool_results_summary(tool_results)
FormatToolResultsSummary(results) ==
    Join([i \in 1..Len(results) |-> FormatToolResult(results[i][1], results[i][2])], "")

----------------------------------------------------------------------------
(* Upstream events.  An event is the record of what the handlers probe on  *)
(* it: whether response.event has a payload, the payload's event_type and, *)
(* per type, the delta, the step details or the turn's output message.     *)

NoPayload == [has_payload |-> FALSE]
\* attr names the attribute the delta carries: "text", "content", "none"
\* (a delta with neither) or "missing" (a payload without a delta).
StepProgress(attr, value) ==
    [has_payload |-> TRUE, event_type |-> "step_progress",
     delta |-> [attr |-> attr, value |-> value]]
\* content is payload.turn.output_message.content
TurnComplete(content) ==
    [has_payload |-> TRUE, event_type |-> "turn_complete", content |-> content]
StepComplete(step_details) ==
    [has_payload |-> TRUE, event_type |-> "step_complete", has_step_details |-> TRUE,
     step_details |-> step_details]
StepCompleteBare ==
    [has_payload |-> TRUE, event_type |-> "step_complete", has_step_details |-> FALSE]
OtherEvent(tag) == [has_payload |-> TRUE, event_type |-> tag]

\* output is step_details.output.content, JNull when there is no output
Inference(output) == [step_type |-> "inference", output |-> output]
ToolExecution(tool_calls, tool_responses) ==
    [step_type |-> "tool_execution", tool_calls |-> tool_calls,
     tool_responses |-> tool_responses]
OtherStep == [step_type |-> "shield_call"]
ToolResponse(tool_name, content) == [tool_name |-> tool_name, content |-> content]

\* The tool steps explored.
ToolSteps ==
    { ToolExecution(<<"t">>, <<>>),
      ToolExecution(<<"t">>, <<ToolResponse("t", JStr(ResultsJSON))>>),
      ToolExecution(<<>>, <<ToolResponse("t", JStr("{}"))>>),
      ToolExecution(<<"web_search">>,
                    <<ToolResponse("t", JStr("")), ToolResponse("web_search", JStr(TopKJSON)),
                      ToolResponse("u", JNull)>>),
      ToolExecution(<<"t", "u">>,
                    <<ToolResponse("t", TextItem(DictJSON)),
                      ToolResponse("u", JList(<<TextItem("a"), JStr("b")>>)),
                      ToolResponse("t", JStr(ListJSON))>>) }

DocFull == <<ThoughtT, ActionObj, AnswerA>>
DocNoAnswer == <<ThoughtT, ActionObj, NoPart>>

\* The upstream's repertoire for one request is one of these event families.
\* Plain text: deltas, turn_complete and inference outputs.
TextEvents ==
    { NoPayload, StepCompleteBare, OtherEvent("turn_start"), OtherEvent("heartbeat"),
      StepProgress("text", "Hel"), StepProgress("text", "lo"), StepProgress("text", ""),
      StepProgress("content", "lo"), StepProgress("none", ""),
      TurnComplete(JStr("Hello")), TurnComplete(JStr("")),
      TurnComplete(JList(<<TextItem("Hel"), JStr("lo")>>)),
      StepComplete(Inference(JNull)), StepComplete(Inference(JStr("Hello"))),
      StepComplete(Inference(JStr(""))) }
\* Tool use: tool steps among text.
ToolEvents ==
    { NoPayload, StepComplete(OtherStep), StepProgress("text", "Hel"),
      TurnComplete(JStr("Hello")), StepComplete(Inference(JNull)),
      OtherEvent("step_start") }
    \cup { StepComplete(sd) : sd \in ToolSteps }
\* Tool use by a ReAct agent, whose text is structured output.
ReactToolEvents ==
    ToolEvents \cup { StepCompleteBare, StepProgress("text", "lo"),
                      StepProgress("text", DocText(DocFull)),
                      StepProgress("text", DocText(DocNoAnswer)) }
\* Structured output: whole documents, a non-object JSON text, plain text.
StructuredEvents ==
    { StepProgress("text", DocText(doc)) : doc \in ReactDocs }
    \cup { StepProgress("text", "[1]"), StepProgress("text", "Hel"),
           StepComplete(Inference(JNull)) }

\* A chunk of a streamed chat completion: whether it has an event, the
\* event's type, and the delta's text ("text") or a delta without one ("none").
Chunk(event_type, attr, value) ==
    [has_event |-> TRUE, event_type |-> event_type,
     delta |-> [attr |-> attr, value |-> value]]
NoEventChunk == [has_event |-> FALSE]
ChatChunks ==
    { NoEventChunk, Chunk("progress", "text", "Hel"), Chunk("progress", "text", "lo"),
      Chunk("progress", "text", ""), Chunk("progress", "none", ""),
      Chunk("complete", "none", ""), Chunk("complete", "text", "lo") }

\* The families a request of each mode can be served from.
Workloads(mode) ==
    IF mode = "ReAct" THEN {"tools", "structured"}
    ELSE IF mode = "Regular" THEN {"text", "tools"}
    ELSE {"chat"}

\* The events the upstream generator can yield to a request.
UpstreamEvents(mode, family) ==
    IF family = "chat" THEN ChatChunks
    ELSE IF family = "text" THEN TextEvents
    ELSE IF family = "structured" THEN StructuredEvents
    ELSE IF mode = "ReAct" THEN ReactToolEvents
    ELSE ToolEvents

\* str(e) of an exception raised by the upstream generator.
ExceptionMessages == { "boom" }

----------------------------------------------------------------------------
(* SSE frames: a frame is the record whose fields are the keys of the JSON *)
(* object sent on the wire.                                                *)

ContentFrame(content, done) == [content |-> content, done |-> done]
IsDone(frame) == "done" \in DOMAIN frame /\ frame.done
IsError(frame) == "error" \in DOMAIN frame
IsContent(frame) == "content" \in DOMAIN frame /\ ~IsError(frame)
\* error_details of tools.generate; the traceback text and the prompt's
\* first hundred characters are opaque.
ErrorDetails(message, mode) ==
    [error |-> message, traceback |-> "<traceback>", agent_type |-> mode,
     prompt |-> "<prompt>"]

----------------------------------------------------------------------------
(* LlamaStackApi._get_jwt_token.  request.headers is a case-insensitive    *)
(* mapping: it is modelled by its value under each lower-cased name, None  *)
(* (JNull) for a header the request does not carry.                        *)

HeaderNames ==
    { "x-forwarded-access-token", "x-auth-request-access-token", "authorization",
      "x-forwarded-authorization" }

\* The values explored for each header, besides its absence.
HeaderValues(name) ==
    CASE name = "x-forwarded-access-token" -> { "", "a", " a ", "Bearer a" }
      [] name = "x-auth-request-access-token" -> { "", "b" }
      [] name = "authorization" -> { "", "Bearer c", "Bearer  c ", "Bearer ", "Basic u" }
      [] OTHER -> { "Bearer d", "d" }

Requests ==
    { h \in [HeaderNames -> {JNull} \cup { JStr(v) : v \in UNION { HeaderValues(n) : n \in HeaderNames } }] :
        \A n \in HeaderNames : h[n] = JNull \/ h[n].s \in HeaderValues(n) }

NoHeaders == [n \in HeaderNames |-> JNull]
NoRequest == [made |-> FALSE]

\* str.lower() of the header names the extractor asks for.
Lower(name) ==
    CASE name = "X-Forwarded-Access-Token" -> "x-forwarded-access-token"
      [] name = "X-Auth-Request-Access-Token" -> "x-auth-request-access-token"
      [] name = "Authorization" -> "authorization"
      [] name = "X-Forwarded-Authorization" -> "x-forwarded-authorization"
      [] OTHER -> name

\* headers.get(name)
HeadersGet(h, name) == h[Lower(name)]

\* Python's `a or b`
Or(a, b) == IF Truthy(a) THEN a ELSE b

\* s.startswith("Bearer ") and s.split("Bearer ", 1)[1].strip(), over the
\* values explored.
BearerTable ==
    { <<"Bearer a", "a">>, <<"Bearer c", "c">>, <<"Bearer  c ", "c">>, <<"Bearer ", "">>,
      <<"Bearer d", "d">> }
StartsWithBearer(s) == \E e \in BearerTable : e[1] = s
AfterBearer(s) == (CHOOSE e \in BearerTable : e[1] = s)[2]

\* str.strip() of a token value.
StripToken(s) == IF s = " a " THEN "a" ELSE s

\* A variant of the first probe below that trims the value.
ForwardedAccessTokenTrimmed(h) ==
    LET token == Or(HeadersGet(h, "X-Forwarded-Access-Token"),
                    HeadersGet(h, "x-forwarded-access-token"))
    IN IF token.t = "str" THEN JStr(StripToken(token.s)) ELSE token

\* headers.get("X-Forwarded-Access-Token") or headers.get("x-forwarded-access-token")
ForwardedAccessToken(h) ==
    Or(HeadersGet(h, "X-Forwarded-Access-Token"), HeadersGet(h, "x-forwarded-access-token"))

AuthRequestAccessToken(h) ==
    Or(HeadersGet(h, "X-Auth-Request-Access-Token"),
       HeadersGet(h, "x-auth-request-access-token"))

\* The one header value the bearer probe looks at: the first truthy of
\* Authorization and X-Forwarded-Authorization.
AuthHeader(h) ==
    Or(HeadersGet(h, "Authorization"),
       Or(HeadersGet(h, "authorization"),
          Or(HeadersGet(h, "X-Forwarded-Authorization"),
             HeadersGet(h, "x-forwarded-authorization"))))

\* A variant of the extractor below that keeps the token of the request
\* before when the headers yield none.
GetJwtTokenRemembered(h) ==
    IF Truthy(ForwardedAccessToken(h)) THEN ForwardedAccessToken(h)
    ELSE IF Truthy(AuthRequestAccessToken(h)) THEN AuthRequestAccessToken(h)
    ELSE jwt_token

\* _get_jwt_token(): the token, or None
GetJwtToken(h) ==
    IF Truthy(ForwardedAccessToken(h)) THEN ForwardedAccessToken(h)
    ELSE IF Truthy(AuthRequestAccessToken(h)) THEN AuthRequestAccessToken(h)
    ELSE LET auth_header == AuthHeader(h) IN
         IF Truthy(auth_header) /\ StartsWithBearer(auth_header.s)
         THEN LET token == AfterBearer(auth_header.s)
              IN IF token # "" THEN JStr(token) ELSE JNull
         ELSE JNull

ExtractorIdle ==
    /\ headers = NoHeaders
    /\ jwt_token = JNull
    /\ earlier = NoRequest

----------------------------------------------------------------------------
(* LlamaStackApi._get_mcp_endpoints and the two client factories.  A dict  *)
(* is a JObj whose pairs are in insertion order.                           *)

\* A tool group as the listing returns it.
ToolGroup(identifier, provider_id, mcp_endpoint) ==
    [identifier |-> identifier, provider_id |-> provider_id, mcp_endpoint |-> mcp_endpoint]
\* An mcp_endpoint object with a .uri attribute.
URL(uri) == [t |-> "url", uri |-> uri]

OpenshiftURI == "http://ocp-mcp-server:8000/sse"
SlackURI == "http://slack-mcp:8000"

\* The registries explored: none registered; the OpenShift server beside a
\* built-in group; the Slack server given as a plain string, a server given
\* as a dict, and one without a usable uri.
Registries ==
    { <<>>,
      << ToolGroup("mcp::openshift", "model-context-protocol", URL(JStr(OpenshiftURI))),
         ToolGroup("builtin::rag", "rag-runtime", JNull) >>,
      << ToolGroup("mcp::slack", "model-context-protocol", JStr(SlackURI)),
         ToolGroup("mcp::jira", "model-context-protocol",
                   JObj(<< <<"uri", JStr("http://jira-mcp/sse")>> >>)),
         ToolGroup("mcp::broken", "model-context-protocol", URL(JStr(""))) >> }

\* mcp_endpoint_uri of a tool group's mcp_endpoint
EndpointURI(mcp_endpoint) ==
    IF mcp_endpoint.t = "url" THEN mcp_endpoint.uri
    ELSE IF mcp_endpoint.t = "obj" THEN Get(mcp_endpoint, "uri", JNull)
    ELSE IF mcp_endpoint.t = "str" THEN mcp_endpoint
    ELSE JNull

\* The loop over the listed tool groups: the endpoint map it builds.
RECURSIVE Discovered(_)
Discovered(tool_groups) ==
    IF tool_groups = <<>> THEN <<>>
    ELSE LET tool_group == tool_groups[Len(tool_groups)]
             rest == Discovered(SubSeq(tool_groups, 1, Len(tool_groups) - 1))
         IN IF /\ tool_group.provider_id = "model-context-protocol"
               /\ tool_group.mcp_endpoint # JNull
               /\ Truthy(EndpointURI(tool_group.mcp_endpoint))
            THEN Append(rest, <<tool_group.identifier, EndpointURI(tool_group.mcp_endpoint)>>)
            ELSE rest

\* A variant of the fallback below that configures no endpoint.
NoFallbackEndpoints == JObj(<<>>)

\* The hardcoded endpoint map used when the listing raises.
FallbackEndpoints == JObj(<< <<"mcp::openshift", JStr(OpenshiftURI)>> >>)

\* urlparse and the /sse normalisation, over the endpoint uris explored:
\* <<normalized_uri, canonical_format>>
NormalizedURI(uri) ==
    CASE uri = OpenshiftURI -> <<OpenshiftURI, "ocp-mcp-server:8000/sse">>
      [] uri = SlackURI -> <<"http://slack-mcp:8000/sse", "slack-mcp:8000/sse">>
      [] OTHER -> <<"http://jira-mcp/sse", "jira-mcp/sse">>

Bearer(token) == [Authorization |-> "Bearer " \o token]

\* mcp_headers of LlamaStackApi.client: per endpoint the normalized uri, the
\* original uri when it differs, and the canonical form.
RECURSIVE ClientMcpHeaders(_, _)
ClientMcpHeaders(pairs, token) ==
    IF pairs = <<>> THEN {}
    ELSE LET endpoint_uri == pairs[1][2].s
             forms == NormalizedURI(endpoint_uri)
         IN { <<forms[1], Bearer(token)>>, <<endpoint_uri, Bearer(token)>>,
              <<forms[2], Bearer(token)>> }
            \cup ClientMcpHeaders(Tail(pairs), token)

\* mcp_headers of client_with_openshift_token: the original uri only.
OpenshiftMcpHeaders(pairs, token) ==
    { <<pairs[i][2].s, Bearer(token)>> : i \in 1..Len(pairs) }

\* client_config as handed to LlamaStackClient: api_key (None when the key
\* is not set) and provider_data["mcp_headers"] (None when not set).
ClientConfig(kind, token, openshift_token, mcp_endpoints) ==
    [api_key |-> IF Truthy(token) THEN token ELSE JNull,
     mcp_headers |->
        IF kind = "client"
        THEN IF Truthy(token) /\ Truthy(mcp_endpoints)
             THEN [t |-> "dict", entries |-> ClientMcpHeaders(mcp_endpoints.pairs, token.s)]
             ELSE JNull
        ELSE IF Truthy(openshift_token) /\ Truthy(mcp_endpoints)
             THEN [t |-> "dict",
                   entries |-> OpenshiftMcpHeaders(mcp_endpoints.pairs, openshift_token.s)]
             ELSE JNull]

Threads == {1, 2}

\* A thread that is handling no request.
Idle ==
    [pc |-> "idle", kind |-> "client", jwt_token |-> JNull, openshift_token |-> JNull,
     mcp_endpoints |-> JObj(<<>>), outcome |-> "none", began_filled |-> FALSE,
     client |-> JNull, supplied |-> JNull]

\* The result columns: the dataset's column, the generated answer
\* (native_eval only) and the scoring function's score.

\* No evaluation is streaming.
EvaluatingIdle ==
    /\ eval_route = "app_eval"
    /\ rows = <<>>
    /\ row_index = 0
    /\ output_res = [c \in {} |-> <<>>]
    /\ eval_frames = <<>>
    /\ eval_pc = "idle"

\* No request has reached a route handler yet.
NoRouteRequest == [route |-> "none"]
RoutingIdle ==
    /\ route_request = NoRouteRequest
    /\ response = [status |-> 0]
    /\ upstream_calls = <<>>

\* self._mcp_endpoints_cache = None, and no request yet
FactoryIdle ==
    /\ mcp_endpoints_cache = JNull
    /\ toolgroups = <<>>
    /\ listings = 0
    /\ constructions = [t \in Threads |-> Idle]
    /\ started = 0

----------------------------------------------------------------------------
(* tools.generate and the handler it delegates to *)

Init ==
    /\ agent_type \in {"ReAct", "Regular", "Chat", "Rag"}
    /\ workload \in Workloads(agent_type)
    /\ pc = "start"
    /\ consumed = <<>>
    /\ ending = "none"
    /\ frames = <<>>
    /\ full_response = ""
    /\ current_step_content = ""
    /\ final_answer = JNull
    /\ tool_results = <<>>
    /\ has_content = FALSE
    /\ ExtractorIdle
    /\ FactoryIdle
    /\ RoutingIdle
    /\ EvaluatingIdle

request == <<agent_type, workload>>
locals == <<full_response, current_step_content, final_answer, tool_results, has_content>>

\* A variant of the clause below whose frame lacks done: true, as the error
\* frames of the chat and RAG generators do.
GenerateExceptWithoutDone(message) ==
    /\ frames' = Append(frames, [error |-> ErrorDetails(message, agent_type)])
    /\ pc' = "closed"

\* The `except Exception` clause of tools.generate: one frame that carries
\* the error details and done: true.
GenerateExcept(message) ==
    /\ frames' = Append(frames, [error |-> ErrorDetails(message, agent_type), done |-> TRUE])
    /\ pc' = "closed"

\* agent.create_turn returns the event generator and generate delegates to a handler.
CreateTurn ==
    /\ pc = "start"
    /\ agent_type \in {"ReAct", "Regular"}
    /\ pc' = "streaming"
    /\ UNCHANGED <<outsideRelay, request, consumed, ending, frames, locals>>

\* agent.create_turn returns None.
CreateTurnNone ==
    /\ pc = "start"
    /\ agent_type \in {"ReAct", "Regular"}
    /\ frames' = Append(frames, [error |-> "No response from agent", done |-> TRUE])
    /\ pc' = "closed"
    /\ ending' = "returned"
    /\ UNCHANGED <<outsideRelay, request, consumed, locals>>

\* agent.create_turn raises.
CreateTurnRaises(message) ==
    /\ pc = "start"
    /\ agent_type \in {"ReAct", "Regular"}
    /\ GenerateExcept(message)
    /\ ending' = "raised"
    /\ UNCHANGED <<outsideRelay, request, consumed, locals>>

\* A variant of the step below that goes on requesting events after the
\* handler has finished.
PullWhenFinished(mode, ev) ==
    /\ pc \in {"streaming", "closed"}
    /\ agent_type = mode
    /\ Len(consumed) < MaxEvents
    /\ ev \in UpstreamEvents(mode, workload)
    /\ consumed' = Append(consumed, ev)
    /\ UNCHANGED <<outsideRelay, request>>

\* The handler's for loop obtains the next upstream event.
Pull(mode, ev) ==
    /\ pc = "streaming"
    /\ agent_type = mode
    /\ Len(consumed) < MaxEvents
    /\ ev \in UpstreamEvents(mode, workload)
    /\ consumed' = Append(consumed, ev)
    /\ UNCHANGED <<outsideRelay, request>>

IsStep(ev, step_type) ==
    /\ ev.has_payload
    /\ ev.event_type = "step_complete"
    /\ ev.has_step_details
    /\ ev.step_details.step_type = step_type

----------------------------------------------------------------------------
(* _handle_react_response *)

\* An event without a payload: one error frame, then the handler returns.
ReactMissingPayload(ev) ==
    /\ Pull("ReAct", ev)
    /\ ~ev.has_payload
    /\ frames' = Append(frames, [error |-> MissingPayload, details |-> "<response>"])
    /\ pc' = "closed"
    /\ ending' = "returned"
    /\ UNCHANGED locals

\* The text a step_progress delta delivers ("" when it has none).
ReactDeltaText(delta) ==
    IF delta.attr \in {"text", "content"} THEN delta.value ELSE ""

ReactStepProgress(ev) ==
    /\ Pull("ReAct", ev)
    /\ ev.has_payload /\ ev.event_type = "step_progress"
    /\ LET text == ReactDeltaText(ev.delta) IN
         IF text # ""
         THEN /\ current_step_content' = current_step_content \o text
              /\ full_response' = full_response \o text
              /\ frames' = Append(frames, ContentFrame(full_response', FALSE))
         ELSE UNCHANGED <<current_step_content, full_response, frames>>
    /\ UNCHANGED <<pc, ending, final_answer, tool_results, has_content>>

\* str(e) of the AttributeError raised by react_output_data.get on a non-dict.
NoGetAttribute(value) ==
    CASE value.t = "list" -> "'list' object has no attribute 'get'"
      [] value.t = "null" -> "'NoneType' object has no attribute 'get'"
      [] value.t = "num" -> "'int' object has no attribute 'get'"
      [] OTHER -> "'str' object has no attribute 'get'"

\* `answer and answer != "null" and answer is not None`
IsFinalAnswer(answer) == Truthy(answer) /\ ~(answer.t = "str" /\ answer.s = "null")
\* A variant of the test below that asks only for the key to hold a value.
EmitsThoughtWhenPresent(thought) == thought.t # "null"

\* `if thought:`
EmitsThought(thought) == Truthy(thought)
\* `if action and isinstance(action, dict):`
EmitsAction(action) == Truthy(action) /\ action.t = "obj"

\* The frames of a parsed step, in the order the handler yields them.
ReactStepFrames(thought, action, answer, buffer) ==
    (IF EmitsThought(thought) THEN <<[thought |-> thought, done |-> FALSE]>> ELSE <<>>)
    \o (IF EmitsAction(action)
        THEN <<[action |-> [tool_name |-> Get(action, "tool_name", JNull),
                            tool_params |-> Get(action, "tool_params", JNull)],
                done |-> FALSE]>>
        ELSE <<>>)
    \o (IF IsFinalAnswer(answer) THEN <<ContentFrame(buffer, FALSE)>> ELSE <<>>)

\* A variant of the frame below that also ends the stream for the client.
ParseFailedFrameDone(text) == [error |-> ParseFailed, content |-> text, done |-> TRUE]

\* The frame of `except json.JSONDecodeError`: the error and the step's text.
ParseFailedFrame(text) == [error |-> ParseFailed, content |-> text]

ReactInference(ev) ==
    /\ Pull("ReAct", ev)
    /\ IsStep(ev, "inference")
    /\ LET react_output_data == JsonLoads(current_step_content) IN
         IF react_output_data.t = "JSONDecodeError"
         THEN /\ frames' = Append(frames, ParseFailedFrame(current_step_content))
              /\ UNCHANGED <<final_answer, full_response>>
         ELSE IF react_output_data.t # "obj"
         THEN /\ frames' = Append(frames, [error |-> ProcessFailed
                                                     \o NoGetAttribute(react_output_data)])
              /\ UNCHANGED <<final_answer, full_response>>
         ELSE LET thought == Get(react_output_data, "thought", JNull)
                  action == Get(react_output_data, "action", JNull)
                  answer == Get(react_output_data, "answer", JNull)
              IN /\ final_answer' = IF IsFinalAnswer(answer) THEN answer ELSE final_answer
                 /\ full_response' = IF IsFinalAnswer(answer)
                                     THEN full_response \o FinalAnswerHeader \o answer.s
                                     ELSE full_response
                 /\ frames' = frames \o ReactStepFrames(thought, action, answer,
                                                        full_response')
    /\ current_step_content' = ""
    /\ UNCHANGED <<pc, ending, tool_results, has_content>>


\* The second unwrapping, applied to an already normalised content before it
\* is serialised into the tool_result frame.
ReactSerializable(content) ==
    IF content.t = "text_item" THEN JStr(content.text) ELSE content

ReactToolExecution(ev) ==
    /\ Pull("ReAct", ev)
    /\ IsStep(ev, "tool_execution")
    /\ LET new_tool_results == ProcessToolExecution(ev.step_details, <<>>) IN
         /\ tool_results' = tool_results \o new_tool_results
         /\ frames' = frames \o
               [i \in 1..Len(new_tool_results) |->
                  [tool_result |-> <<new_tool_results[i][1],
                                     ReactSerializable(new_tool_results[i][2])>>,
                   done |-> FALSE]]
    /\ current_step_content' = ""
    /\ UNCHANGED <<pc, ending, full_response, final_answer, has_content>>

\* A variant of the step below that keeps the step buffer for the next step.
ReactOtherStepKeepsBuffer(ev) ==
    /\ Pull("ReAct", ev)
    /\ ev.has_payload /\ ev.event_type = "step_complete" /\ ev.has_step_details
    /\ ev.step_details.step_type \notin {"inference", "tool_execution"}
    /\ UNCHANGED <<pc, ending, frames, locals>>

\* A completed step of any other type only resets the step buffer.
ReactOtherStep(ev) ==
    /\ Pull("ReAct", ev)
    /\ ev.has_payload /\ ev.event_type = "step_complete" /\ ev.has_step_details
    /\ ev.step_details.step_type \notin {"inference", "tool_execution"}
    /\ current_step_content' = ""
    /\ UNCHANGED <<pc, ending, frames, full_response, final_answer, tool_results,
                   has_content>>

\* payload.step_details raises AttributeError, which leaves the handler and
\* is caught by tools.generate.
ReactStepDetailsMissing(ev) ==
    /\ Pull("ReAct", ev)
    /\ ev.has_payload /\ ev.event_type = "step_complete" /\ ~ev.has_step_details
    /\ GenerateExcept("'Payload' object has no attribute 'step_details'")
    /\ ending' = "raised"
    /\ UNCHANGED locals

\* A variant of the step below that takes the content of a turn_complete
\* event into the buffer, as the regular handler does.
ReactTakesTurnComplete(ev) ==
    /\ Pull("ReAct", ev)
    /\ ev.has_payload /\ ev.event_type \notin {"step_progress", "step_complete"}
    /\ IF ev.event_type = "turn_complete" /\ ev.content.t = "str"
       THEN /\ full_response' = full_response \o ev.content.s
            /\ frames' = Append(frames, ContentFrame(full_response', FALSE))
            /\ UNCHANGED <<pc, ending, current_step_content, final_answer, tool_results,
                           has_content>>
       ELSE UNCHANGED <<pc, ending, frames, locals>>

\* Any other event type falls through the loop body.
ReactIgnored(ev) ==
    /\ Pull("ReAct", ev)
    /\ ev.has_payload /\ ev.event_type \notin {"step_progress", "step_complete"}
    /\ UNCHANGED <<pc, ending, frames, locals>>

\* A variant of the terminal content below without the placeholder, as the
\* chat and RAG generators send it.
ReactFinalContentAsIs(buffer) == buffer

\* `full_response or 'No response generated'`
ReactFinalContent(buffer) == IF buffer # "" THEN buffer ELSE NoResponse

\* A variant of the condition below that asks for more than one collected
\* result.
NeedsSummaryOfSeveral(answer, results) == ~Truthy(answer) /\ Len(results) > 1

\* `if not final_answer and tool_results:`
NeedsSummary(answer, results) == ~Truthy(answer) /\ results # <<>>

\* The upstream generator is exhausted: the summary fallback, then the terminal frame.
ReactExhausted ==
    /\ pc = "streaming"
    /\ agent_type = "ReAct"
    /\ LET summary == FormatToolResultsSummary(tool_results) IN
         IF NeedsSummary(final_answer, tool_results)
         THEN /\ full_response' = full_response \o FoundHeader \o summary
              /\ frames' = frames \o <<ContentFrame(summary, FALSE),
                                       ContentFrame(ReactFinalContent(full_response'), TRUE)>>
         ELSE /\ full_response' = full_response
              /\ frames' = Append(frames, ContentFrame(ReactFinalContent(full_response), TRUE))
    /\ pc' = "closed"
    /\ ending' = "exhausted"
    /\ UNCHANGED <<outsideRelay, request, consumed, current_step_content, final_answer, tool_results,
                   has_content>>

\* The upstream generator raises: nothing in the handler catches it, so it
\* reaches the `except Exception` clause of tools.generate.
ReactUpstreamRaises(message) ==
    /\ pc = "streaming"
    /\ agent_type = "ReAct"
    /\ GenerateExcept(message)
    /\ ending' = "upstream_raised"
    /\ UNCHANGED <<outsideRelay, request, consumed, locals>>

HandleReactResponse ==
    \/ \E ev \in ReactToolEvents \cup StructuredEvents :
          \/ ReactMissingPayload(ev)
          \/ ReactStepProgress(ev)
          \/ ReactInference(ev)
          \/ ReactToolExecution(ev)
          \/ ReactOtherStep(ev)
          \/ ReactStepDetailsMissing(ev)
          \/ ReactIgnored(ev)
    \/ ReactExhausted
    \/ \E message \in ExceptionMessages : ReactUpstreamRaises(message)

----------------------------------------------------------------------------
(* _handle_regular_response *)

\* A response without event.payload: an error frame, and the loop goes on.
RegularMissingPayload(ev) ==
    /\ Pull("Regular", ev)
    /\ ~ev.has_payload
    /\ frames' = Append(frames, [error |-> ClusterError \o "<response>", done |-> FALSE])
    /\ UNCHANGED <<pc, ending, locals>>

\* The text a step_progress delta delivers ("" when it has none).
RegularDeltaText(delta) ==
    IF delta.attr = "text" THEN delta.value
    ELSE IF delta.attr = "content" THEN delta.value
    ELSE ""

RegularStepProgress(ev) ==
    /\ Pull("Regular", ev)
    /\ ev.has_payload /\ ev.event_type = "step_progress"
    /\ LET text_delta == RegularDeltaText(ev.delta) IN
         IF text_delta # ""
         THEN /\ full_response' = full_response \o text_delta
              /\ has_content' = TRUE
              /\ frames' = Append(frames, ContentFrame(full_response', FALSE))
         ELSE UNCHANGED <<full_response, has_content, frames>>
    /\ UNCHANGED <<pc, ending, current_step_content, final_answer, tool_results>>

\* The text turn_complete appends for an output message content: the str
\* itself, or the texts of a list's items.
TurnCompleteText(final_text) ==
    IF final_text.t = "str" THEN final_text.s
    ELSE Join([i \in 1..Len(final_text.items) |-> ItemText(final_text.items[i])], "")

RegularTurnComplete(ev) ==
    /\ Pull("Regular", ev)
    /\ ev.has_payload /\ ev.event_type = "turn_complete"
    /\ IF ev.content.t \in {"str", "list"}
       THEN /\ full_response' = full_response \o TurnCompleteText(ev.content)
            /\ has_content' = TRUE
            /\ frames' = Append(frames, ContentFrame(full_response', FALSE))
       ELSE UNCHANGED <<full_response, has_content, frames>>
    /\ UNCHANGED <<pc, ending, current_step_content, final_answer, tool_results>>

ToolInfo(tool_calls) ==
    IF tool_calls # <<>> THEN "Using \"" \o tool_calls[1] \o "\" tool" ELSE NoToolCalls

\* A variant of the test below that lets an empty str through.
ShowsAnyStr(content) == content.t = "str"

\* `if tool_result_content and isinstance(tool_result_content, str):`
ShowsToolResult(content) == Truthy(content) /\ content.t = "str"

\* The tool_result frames of a step: one per response whose normalised
\* content is a non-empty str, in the order of the responses.
RegularToolResultFrames(tool_responses) ==
    LET shown == SelectSeq(tool_responses,
                           LAMBDA r : ShowsToolResult(NormalizeContent(r.content)))
    IN [i \in 1..Len(shown) |->
          [tool_result |-> <<shown[i].tool_name, NormalizeContent(shown[i].content)>>,
           done |-> FALSE]]

RegularToolExecution(ev) ==
    /\ Pull("Regular", ev)
    /\ IsStep(ev, "tool_execution")
    /\ frames' = frames
                 \o <<[tool_info |-> ToolInfo(ev.step_details.tool_calls), done |-> FALSE]>>
                 \o RegularToolResultFrames(ev.step_details.tool_responses)
    /\ UNCHANGED <<pc, ending, locals>>

RegularInference(ev) ==
    /\ Pull("Regular", ev)
    /\ IsStep(ev, "inference")
    /\ IF ev.step_details.output.t = "str"
       THEN /\ full_response' = full_response \o ev.step_details.output.s
            /\ has_content' = TRUE
            /\ frames' = Append(frames, ContentFrame(full_response', FALSE))
       ELSE UNCHANGED <<full_response, has_content, frames>>
    /\ UNCHANGED <<pc, ending, current_step_content, final_answer, tool_results>>

\* A variant of the action below that reports what it does not handle in an
\* error frame.
RegularUnhandledReported(ev) ==
    /\ Pull("Regular", ev)
    /\ ev.has_payload
    /\ IF ev.event_type = "step_complete"
       THEN IF ev.has_step_details
            THEN ev.step_details.step_type \notin {"inference", "tool_execution"}
            ELSE TRUE
       ELSE ev.event_type \notin {"step_progress", "turn_complete"}
    /\ frames' = Append(frames, [error |-> ClusterError \o "<response>", done |-> FALSE])
    /\ UNCHANGED <<pc, ending, locals>>

\* step_start, turn_start and unknown types, a step_complete without
\* step_details or of another step type: logged only.
RegularIgnored(ev) ==
    /\ Pull("Regular", ev)
    /\ ev.has_payload
    /\ IF ev.event_type = "step_complete"
       THEN IF ev.has_step_details
            THEN ev.step_details.step_type \notin {"inference", "tool_execution"}
            ELSE TRUE
       ELSE ev.event_type \notin {"step_progress", "turn_complete"}
    /\ UNCHANGED <<pc, ending, frames, locals>>

\* `full_response if has_content else "No response generated"`
RegularFinalContent(buffer, flag) == IF flag THEN buffer ELSE NoResponse

RegularExhausted ==
    /\ pc = "streaming"
    /\ agent_type = "Regular"
    /\ frames' = Append(frames,
                        ContentFrame(RegularFinalContent(full_response, has_content), TRUE))
    /\ pc' = "closed"
    /\ ending' = "exhausted"
    /\ UNCHANGED <<outsideRelay, request, consumed, locals>>

\* The upstream generator raises: the handler's own `except Exception`
\* yields an error frame and falls through to the terminal frame.
RegularUpstreamRaises(message) ==
    /\ pc = "streaming"
    /\ agent_type = "Regular"
    /\ frames' = frames \o
          <<[error |-> ProcessingError \o message \o "\n<traceback>", done |-> FALSE],
            ContentFrame(RegularFinalContent(full_response, has_content), TRUE)>>
    /\ pc' = "closed"
    /\ ending' = "upstream_raised"
    /\ UNCHANGED <<outsideRelay, request, consumed, locals>>

HandleRegularResponse ==
    \/ \E ev \in TextEvents \cup ToolEvents :
          \/ RegularMissingPayload(ev)
          \/ RegularStepProgress(ev)
          \/ RegularTurnComplete(ev)
          \/ RegularToolExecution(ev)
          \/ RegularInference(ev)
          \/ RegularIgnored(ev)
    \/ RegularExhausted
    \/ \E message \in ExceptionMessages : RegularUpstreamRaises(message)

----------------------------------------------------------------------------
(* chat.generate and rag_query.generate *)

\* The `except Exception` clause of both generators: an error frame, and
\* the generator ends.
StreamExcept(message) ==
    /\ frames' = Append(frames, [error |-> message])
    /\ pc' = "closed"

\* client.inference.chat_completion returns the chunk iterator.
ChatCompletion ==
    /\ pc = "start"
    /\ agent_type \in {"Chat", "Rag"}
    /\ pc' = "streaming"
    /\ UNCHANGED <<outsideRelay, request, consumed, ending, frames, locals>>

\* client.inference.chat_completion raises.
ChatCompletionRaises(message) ==
    /\ pc = "start"
    /\ agent_type \in {"Chat", "Rag"}
    /\ StreamExcept(message)
    /\ ending' = "raised"
    /\ UNCHANGED <<outsideRelay, request, consumed, locals>>

\* The frame of both generators: the RAG stream adds the retrieved context.
StreamFrame(mode, content, done) ==
    IF mode = "Rag" THEN [content |-> content, context |-> "<context>", done |-> done]
    ELSE ContentFrame(content, done)

\* A variant of the test below that takes the text of any event type, as the
\* RAG generator does.
ChatAppendsAnyEvent(chunk) == chunk.has_event /\ chunk.delta.attr = "text"

\* chat: only chunks with an event of type "progress" whose delta has a text.
ChatAppends(chunk) ==
    chunk.has_event /\ chunk.event_type = "progress" /\ chunk.delta.attr = "text"

ChatChunk(chunk) ==
    /\ Pull("Chat", chunk)
    /\ IF ChatAppends(chunk)
       THEN /\ full_response' = full_response \o chunk.delta.value
            /\ frames' = Append(frames, StreamFrame("Chat", full_response', FALSE))
       ELSE UNCHANGED <<full_response, frames>>
    /\ UNCHANGED <<pc, ending, current_step_content, final_answer, tool_results,
                   has_content>>

\* rag: every chunk whose event's delta has a text, whatever the event type.
RagChunk(chunk) ==
    /\ Pull("Rag", chunk)
    /\ chunk.has_event
    /\ IF chunk.delta.attr = "text"
       THEN /\ full_response' = full_response \o chunk.delta.value
            /\ frames' = Append(frames, StreamFrame("Rag", full_response', FALSE))
       ELSE UNCHANGED <<full_response, frames>>
    /\ UNCHANGED <<pc, ending, current_step_content, final_answer, tool_results,
                   has_content>>

\* rag: chunk.event raises AttributeError on a chunk without an event.
RagChunkWithoutEvent(chunk) ==
    /\ Pull("Rag", chunk)
    /\ ~chunk.has_event
    /\ StreamExcept("'Chunk' object has no attribute 'event'")
    /\ ending' = "raised"
    /\ UNCHANGED locals

StreamExhausted ==
    /\ pc = "streaming"
    /\ agent_type \in {"Chat", "Rag"}
    /\ frames' = Append(frames, StreamFrame(agent_type, full_response, TRUE))
    /\ pc' = "closed"
    /\ ending' = "exhausted"
    /\ UNCHANGED <<outsideRelay, request, consumed, locals>>

\* The chunk iterator raises.
StreamUpstreamRaises(message) ==
    /\ pc = "streaming"
    /\ agent_type \in {"Chat", "Rag"}
    /\ StreamExcept(message)
    /\ ending' = "upstream_raised"
    /\ UNCHANGED <<outsideRelay, request, consumed, locals>>

ChatGenerate ==
    \/ ChatCompletion
    \/ \E message \in ExceptionMessages : ChatCompletionRaises(message)
    \/ \E chunk \in ChatChunks : ChatChunk(chunk) \/ RagChunk(chunk)
                                 \/ RagChunkWithoutEvent(chunk)
    \/ StreamExhausted
    \/ \E message \in ExceptionMessages : StreamUpstreamRaises(message)

ToolsGenerate ==
    \/ CreateTurn
    \/ CreateTurnNone
    \/ \E message \in ExceptionMessages : CreateTurnRaises(message)
    \/ HandleReactResponse
    \/ HandleRegularResponse

Next == ToolsGenerate \/ ChatGenerate

Spec == Init /\ [][Next]_vars

----------------------------------------------------------------------------
(* Properties *)

Closed == pc = "closed"
ToolsMode == agent_type \in {"ReAct", "Regular"}
ChatMode == agent_type \in {"Chat", "Rag"}
DoneFrames == { i \in 1..Len(frames) : IsDone(frames[i]) }
LastFrame == frames[Len(frames)]

\* C1: for every sequence of upstream events fed to the tool-calling stream,
\* events without a payload included, exactly one frame with done: true is
\* emitted and it is the last frame.
C1_ExactlyOneDoneAndLast ==
    (Closed /\ ToolsMode) =>
        /\ Cardinality(DoneFrames) = 1
        /\ IsDone(LastFrame)

RaisedMessage(frame) ==
    IF agent_type = "ReAct" THEN frame.error.error
    ELSE frame.error

C3_ChatStreamEndsWithDone ==
    (Closed /\ ChatMode) =>
        /\ Cardinality(DoneFrames) = 1
        /\ IsDone(LastFrame)

----------------------------------------------------------------------------
(* What a consumed event sequence delivered, read off the events themselves *)

IsEvent(ev, event_type) == ev.has_payload /\ ev.event_type = event_type

\* The text of the step_progress deltas, in order.
RECURSIVE StreamedText(_)
StreamedText(events) ==
    IF events = <<>> THEN ""
    ELSE LET ev == events[Len(events)]
             text == IF IsEvent(ev, "step_progress") /\ ev.delta.attr \in {"text", "content"}
                     THEN ev.delta.value ELSE ""
         IN StreamedText(SubSeq(events, 1, Len(events) - 1)) \o text

\* The text of the step_progress deltas and of the inference steps' outputs.
RECURSIVE DeliveredText(_)
DeliveredText(events) ==
    IF events = <<>> THEN ""
    ELSE LET ev == events[Len(events)]
             text == IF IsEvent(ev, "step_progress") /\ ev.delta.attr \in {"text", "content"}
                     THEN ev.delta.value
                     ELSE IF IsStep(ev, "inference") /\ ev.step_details.output.t = "str"
                          THEN ev.step_details.output.s
                          ELSE ""
         IN DeliveredText(SubSeq(events, 1, Len(events) - 1)) \o text

\* The responses of one tool_execution step as (tool name, content) pairs,
\* the content unwrapped to text.
StepResponses(ev) ==
    IF IsStep(ev, "tool_execution")
    THEN [i \in 1..Len(ev.step_details.tool_responses) |->
            <<ev.step_details.tool_responses[i].tool_name,
              NormalizeContent(ev.step_details.tool_responses[i].content)>>]
    ELSE <<>>

\* The responses of all tool_execution steps, in order.
RECURSIVE ToolResponsesOf(_)
ToolResponsesOf(events) ==
    IF events = <<>> THEN <<>>
    ELSE ToolResponsesOf(SubSeq(events, 1, Len(events) - 1))
         \o StepResponses(events[Len(events)])

\* The case of C4: the upstream was relayed to its end, no turn_complete
\* event, no final answer parsed, at least one tool response.
SummaryCase ==
    /\ ToolsMode /\ Closed /\ ending = "exhausted"
    /\ \A i \in 1..Len(consumed) : ~IsEvent(consumed[i], "turn_complete")
    /\ ~Truthy(final_answer)
    /\ ToolResponsesOf(consumed) # <<>>

ExpectedSummary == FormatToolResultsSummary(ToolResponsesOf(consumed))

\* The content ends with the summary of the tool responses, after the text
\* streamed so far, with or without the heading.
ContainsSummary(content) ==
    \E prefix \in { StreamedText(consumed) \o FoundHeader, StreamedText(consumed),
                    FoundHeader, "" } :
        content = prefix \o ExpectedSummary

C5_TerminalContentNeverEmpty ==
    Closed =>
        \A i \in 1..Len(frames) :
            (IsDone(frames[i]) /\ IsContent(frames[i])) =>
                /\ frames[i].content # ""
                /\ full_response = "" => frames[i].content = NoResponse

Hel == StepProgress("text", "Hel")
Lo == StepProgress("text", "lo")
TurnCompleteHello == TurnComplete(JStr("Hello"))

\* C6: for the events step_progress 'Hel', step_progress 'lo', turn_complete
\* 'Hello', the tool-calling stream emits exactly four frames: content 'Hel',
\* content 'Hello', content 'Hello' (not 'HelloHello'), and the terminal
\* frame with content 'Hello'.
C6_HelloScenario ==
    (ToolsMode /\ Closed /\ ending = "exhausted"
       /\ consumed = <<Hel, Lo, TurnCompleteHello>>) =>
        frames = << ContentFrame("Hel", FALSE), ContentFrame("Hello", FALSE),
                    ContentFrame("Hello", FALSE), ContentFrame("Hello", TRUE) >>

\* The step relays one more event, of the given type.
Relays(event_type) ==
    /\ ToolsMode /\ pc = "streaming"
    /\ Len(consumed') = Len(consumed) + 1
    /\ IsEvent(consumed'[Len(consumed')], event_type)

\* C8: on turn_complete the relay appends the turn's content and emits a
\* content frame only if no text was captured earlier in the stream; when
\* text was captured it leaves the buffer unchanged.
C8_TurnCompleteAppendsOnce ==
    [][ (Relays("turn_complete") /\ consumed'[Len(consumed')].content.t = "str") =>
           IF full_response = ""
           THEN /\ full_response' = consumed'[Len(consumed')].content.s
                /\ frames' = Append(frames, ContentFrame(full_response', FALSE))
           ELSE full_response' = full_response ]_vars

\* The event a relaying step consumes, and the frames it emits.
RelayedEvent == consumed'[Len(consumed')]
NewFrames == SubSeq(frames', Len(frames) + 1, Len(frames'))

\* A ReAct inference step completes while the step buffer holds this text.
ReactInferenceStep ==
    /\ agent_type = "ReAct"
    /\ Relays("step_complete")
    /\ IsStep(RelayedEvent, "inference")

ToolExecutionStep == Relays("step_complete") /\ IsStep(RelayedEvent, "tool_execution")

IsToolResult(frame) == "tool_result" \in DOMAIN frame
ToolResultFrame(pair) == [tool_result |-> pair, done |-> FALSE]

\* C9 as stated: in both modes a tool_execution step emits one tool_result
\* frame per tool response, in response order, and leaves the buffer unchanged.
C9_OneToolResultPerResponse ==
    [][ ToolExecutionStep =>
           LET responses == StepResponses(RelayedEvent)
               results == SelectSeq(NewFrames, IsToolResult)
           IN /\ results = [i \in 1..Len(responses) |-> ToolResultFrame(responses[i])]
              /\ full_response' = full_response ]_vars

\* A response whose unwrapped content is a non-empty str.
HasText(pair) == pair[2].t = "str" /\ pair[2].s # ""

\* C9 as amended: a tool_execution step leaves the buffer unchanged in both
\* modes.  In ReAct mode it emits one tool_result frame per tool response, in
\* response order, and nothing else.  In regular mode it emits a tool_info
\* frame and then a tool_result frame for each response whose content is a
\* non-empty str, in response order; responses with empty or missing content
\* get no frame.
C9_ToolResultFrames ==
    [][ ToolExecutionStep =>
           LET responses == StepResponses(RelayedEvent)
               shown == SelectSeq(responses, HasText)
           IN /\ IF agent_type = "ReAct"
                 THEN NewFrames = [i \in 1..Len(responses) |-> ToolResultFrame(responses[i])]
                 ELSE /\ Len(NewFrames) = 1 + Len(shown)
                      /\ "tool_info" \in DOMAIN NewFrames[1]
                      /\ Tail(NewFrames) = [i \in 1..Len(shown) |-> ToolResultFrame(shown[i])]
              /\ SubSeq(frames', 1, Len(frames)) = frames
              /\ full_response' = full_response ]_vars

\* A regular stream relayed a step with three responses, one of them empty
\* and one without content, and showed only the one with text.
C9_Witness ==
    /\ agent_type = "Regular" /\ consumed # <<>>
    /\ IsStep(consumed[1], "tool_execution")
    /\ Len(StepResponses(consumed[1])) = 3
    /\ Len(SelectSeq(StepResponses(consumed[1]), HasText)) = 1
    /\ Len(SelectSeq(frames, IsToolResult)) = 1

FrameKind(frame) ==
    IF "thought" \in DOMAIN frame THEN "thought"
    ELSE IF "action" \in DOMAIN frame THEN "action"
    ELSE IF IsContent(frame) THEN "content"
    ELSE "other"

\* The step's text parses to a JSON object.
ParsedStep == ReactInferenceStep /\ JsonLoads(current_step_content).t = "obj"
ParsedObject == JsonLoads(current_step_content)

\* C10 as stated: for a parsed object the relay emits a thought frame iff
\* 'thought' is present, an action frame iff 'action' is an object, and
\* appends the answer and emits a content frame iff 'answer' is present and
\* not the string 'null'; in the order thought, action, content.
C10_FramesByPresence ==
    [][ ParsedStep =>
           LET answer == Get(ParsedObject, "answer", JNull)
               answered == HasKey(ParsedObject, "answer")
                           /\ ~(answer.t = "str" /\ answer.s = "null")
           IN /\ [i \in 1..Len(NewFrames) |-> FrameKind(NewFrames[i])]
                   = (IF HasKey(ParsedObject, "thought") THEN <<"thought">> ELSE <<>>)
                     \o (IF Get(ParsedObject, "action", JNull).t = "obj"
                         THEN <<"action">> ELSE <<>>)
                     \o (IF answered THEN <<"content">> ELSE <<>>)
              /\ (full_response' # full_response) <=> answered ]_vars

\* C10 as amended: the three tests are tests of truthiness.  The relay emits a
\* thought frame iff 'thought' holds a non-empty value, an action frame iff
\* 'action' is a non-empty object, and appends the final-answer heading and
\* the answer and emits a content frame with the whole buffer iff 'answer'
\* holds a non-empty value other than the string 'null'; in the order
\* thought, action, content.  An empty string, an empty object or null counts
\* as absent.
C10_FramesByTruthiness ==
    [][ ParsedStep =>
           LET thought == Get(ParsedObject, "thought", JNull)
               action == Get(ParsedObject, "action", JNull)
               answer == Get(ParsedObject, "answer", JNull)
               answered == Truthy(answer) /\ ~(answer.t = "str" /\ answer.s = "null")
           IN /\ full_response' = IF answered
                                  THEN full_response \o FinalAnswerHeader \o answer.s
                                  ELSE full_response
              /\ NewFrames
                   = (IF Truthy(thought)
                      THEN <<[thought |-> thought, done |-> FALSE]>> ELSE <<>>)
                     \o (IF action.t = "obj" /\ Truthy(action)
                         THEN <<[action |-> [tool_name |-> Get(action, "tool_name", JNull),
                                             tool_params |-> Get(action, "tool_params", JNull)],
                                 done |-> FALSE]>>
                         ELSE <<>>)
                     \o (IF answered THEN <<ContentFrame(full_response', FALSE)>> ELSE <<>>)
              /\ SubSeq(frames', 1, Len(frames)) = frames ]_vars

\* A ReAct stream relayed a step whose object has all three members, the
\* thought an empty string: after the delta's frame, an action frame and a
\* content frame.
C10_Witness ==
    /\ agent_type = "ReAct" /\ workload = "structured"
    /\ Len(consumed) = 2
    /\ consumed[1] = StepProgress("text", DocText(<<ThoughtEmpty, ActionObj, AnswerA>>))
    /\ IsStep(consumed[2], "inference")
    /\ [i \in 1..Len(frames) |-> FrameKind(frames[i])] = <<"content", "action", "content">>

\* The step relays an event whose tag the relay does not know.
UnhandledTagStep ==
    /\ ToolsMode /\ pc = "streaming"
    /\ Len(consumed') = Len(consumed) + 1
    /\ RelayedEvent.has_payload
    /\ RelayedEvent.event_type \notin {"step_progress", "step_complete", "turn_complete"}

\* C11: in both agent modes an event whose tag is none of step_progress,
\* step_complete and turn_complete is ignored: no frame is emitted for it,
\* the buffer, the collected tool results and the other handler state stay
\* as they are, nothing is raised, and the stream stays open for the events
\* that follow.
C11_OtherTagsIgnored ==
    [][ UnhandledTagStep =>
           /\ frames' = frames
           /\ full_response' = full_response
           /\ tool_results' = tool_results
           /\ UNCHANGED locals
           /\ pc' = "streaming" /\ ending' = "none" ]_vars

\* A regular stream relayed an unknown tag and then a text delta, and ended
\* with the delta's text.
C11_Witness ==
    /\ agent_type = "Regular" /\ Closed /\ ending = "exhausted"
    /\ consumed = <<OtherEvent("heartbeat"), Hel>>
    /\ frames = <<ContentFrame("Hel", FALSE), ContentFrame("Hel", TRUE)>>

\* C12: when the upstream generator yields no event at all, the relay emits
\* exactly one frame, the terminal frame with the placeholder content, in
\* both agent modes.
C12_EmptyStreamPlaceholder ==
    (ToolsMode /\ Closed /\ ending = "exhausted" /\ consumed = <<>>) =>
        frames = <<ContentFrame("No response generated", TRUE)>>

\* A ReAct stream whose upstream was exhausted before any event.
C12_Witness ==
    /\ agent_type = "ReAct" /\ Closed /\ ending = "exhausted"
    /\ consumed = <<>> /\ Len(frames) = 1

----------------------------------------------------------------------------
(* Requests to the token extractor *)

RelayIdle ==
    /\ agent_type = "Regular" /\ workload = "text"
    /\ pc = "start" /\ consumed = <<>> /\ ending = "none" /\ frames = <<>>
    /\ full_response = "" /\ current_step_content = "" /\ final_answer = JNull
    /\ tool_results = <<>> /\ has_content = FALSE

\* The object as a request may find it: the cache empty or filled.
TokenInit ==
    /\ RelayIdle
    /\ ExtractorIdle
    /\ mcp_endpoints_cache \in {JNull, FallbackEndpoints}
    /\ toolgroups = <<>>
    /\ listings = 0
    /\ constructions = [t \in Threads |-> Idle]
    /\ started = 0
    /\ RoutingIdle
    /\ EvaluatingIdle

\* The requests kept in mind for comparison with later ones: those with at
\* most one credential header.
Memorable(h) == Cardinality({ n \in HeaderNames : h[n] # JNull }) <= 1

\* A request arrives and a route asks the extractor for its token.  The
\* request before may be kept in mind for comparison.
ExtractToken(h, keep) ==
    /\ headers' = h
    /\ jwt_token' = GetJwtToken(h)
    /\ earlier' = IF keep \/ ~Memorable(headers) THEN earlier
                  ELSE [made |-> TRUE, headers |-> headers, token |-> jwt_token]
    /\ UNCHANGED <<relay, factory, routing, evaluating>>

TokenNext == \E h \in Requests, keep \in BOOLEAN : ExtractToken(h, keep)

TokenSpec == TokenInit /\ [][TokenNext]_vars

\* The credential a header yields on its own: its value for the two token
\* headers, the text after "Bearer " for the two authorization headers.
Credential(h, name) ==
    IF Lower(name) \in {"x-forwarded-access-token", "x-auth-request-access-token"}
    THEN IF Truthy(h[Lower(name)]) THEN h[Lower(name)] ELSE JNull
    ELSE IF Truthy(h[Lower(name)]) /\ StartsWithBearer(h[Lower(name)].s)
              /\ AfterBearer(h[Lower(name)].s) # ""
         THEN JStr(AfterBearer(h[Lower(name)].s))
         ELSE JNull

Priority ==
    << "X-Forwarded-Access-Token", "X-Auth-Request-Access-Token", "Authorization",
       "X-Forwarded-Authorization" >>

\* The credential of the first header, in priority order, that yields one.
FirstCredential(h) ==
    IF \E i \in 1..Len(Priority) : Credential(h, Priority[i]) # JNull
    THEN LET first == CHOOSE i \in 1..Len(Priority) :
                         /\ Credential(h, Priority[i]) # JNull
                         /\ \A j \in 1..(i - 1) : Credential(h, Priority[j]) = JNull
         IN Credential(h, Priority[first])
    ELSE JNull

\* C13: the extractor returns the first non-empty credential in the order
\* X-Forwarded-Access-Token, X-Auth-Request-Access-Token, bearer token of
\* Authorization, bearer token of X-Forwarded-Authorization, and None when no
\* header yields one, for every combination of headers.
C13_FirstCredentialInPriorityOrder == jwt_token = FirstCredential(headers)

\* C14: a non-empty X-Forwarded-Access-Token value is returned exactly as it
\* is, whatever the other headers hold.
C14_ForwardedAccessTokenVerbatim ==
    Truthy(headers["x-forwarded-access-token"]) =>
        jwt_token = headers["x-forwarded-access-token"]

\* The value has spaces around it and the request carries all other
\* credential headers too.
C14_Witness ==
    /\ headers["x-forwarded-access-token"] = JStr(" a ")
    /\ \A n \in HeaderNames : Truthy(headers[n])
    /\ jwt_token = JStr(" a ")

\* Every credential some header of the request yields.
CredentialsIn(h) == { Credential(h, Priority[i]) : i \in 1..Len(Priority) } \ {JNull}

----------------------------------------------------------------------------
(* Client constructions.  Each request is handled on a thread of its own;  *)
(* the threads share the LlamaStackApi object, and a step of one thread is *)
(* the code between two points where another thread can run.               *)

Tokens == { JNull, JStr("tokA"), JStr("tokB") }

FactoryInit ==
    /\ RelayIdle
    /\ ExtractorIdle
    /\ mcp_endpoints_cache = JNull
    /\ toolgroups \in Registries
    /\ listings = 0
    /\ constructions = [t \in Threads |-> Idle]
    /\ started = 0
    /\ RoutingIdle
    /\ EvaluatingIdle

Set(t, record) == constructions' = [constructions EXCEPT ![t] = record]

\* A request reaches llama_stack_api.client or client_with_openshift_token:
\* the token is extracted and client_config prepared.  Without a token the
\* endpoint map stays empty and the cache is not consulted.
BeginConstruction(t, kind, token) ==
    /\ constructions[t].pc \in {"idle", "done"}
    /\ started < MaxConstructions
    /\ started' = started + 1
    /\ Set(t, [Idle EXCEPT !.pc = IF Truthy(token) THEN "get_endpoints" ELSE "build",
                           !.kind = kind,
                           !.jwt_token = token,
                           !.openshift_token = IF kind = "client" THEN JNull ELSE JStr("os"),
                           !.supplied = IF kind = "client" THEN JNull ELSE JStr("os"),
                           !.outcome = IF Truthy(token) THEN "none" ELSE "no_token",
                           !.began_filled = mcp_endpoints_cache # JNull])
    /\ UNCHANGED <<relay, extractor, routing, evaluating, mcp_endpoints_cache, toolgroups, listings>>

\* The openshift_token values a tools request may carry in its body: none,
\* empty, blank, and a token with surrounding blanks.
OpenshiftTokens == { JNull, JStr(""), JStr("  "), JStr(" os ") }

\* openshift_token.strip(), over the values explored
StripOpenshiftToken(s) ==
    CASE s = " os " -> "os"
      [] s = "  " -> ""
      [] OTHER -> s

\* openshift_token and openshift_token.strip()
NonBlank(openshift_token) ==
    IF Truthy(openshift_token) THEN StripOpenshiftToken(openshift_token.s) # "" ELSE FALSE

\* A variant of the choice below that hands the JWT to the MCP endpoints
\* whatever the request supplied.
OpenshiftTokenIgnored(token, openshift_token) ==
    [kind |-> "client_with_openshift_token", openshift_token |-> token]

\* The tools route chooses the factory: client_with_openshift_token with the
\* stripped token when one is supplied and not blank, else client.
ToolsClientChoice(token, openshift_token) ==
    IF NonBlank(openshift_token)
    THEN [kind |-> "client_with_openshift_token",
          openshift_token |-> JStr(StripOpenshiftToken(openshift_token.s))]
    ELSE [kind |-> "client", openshift_token |-> JNull]

\* A tools request with a token reaches the client construction (a request
\* without one was answered 401 before).
BeginToolsRequest(t, token, openshift_token) ==
    /\ constructions[t].pc \in {"idle", "done"}
    /\ started < MaxConstructions
    /\ Truthy(token)
    /\ started' = started + 1
    /\ LET choice == ToolsClientChoice(token, openshift_token)
       IN Set(t, [Idle EXCEPT !.pc = "get_endpoints",
                              !.kind = choice.kind,
                              !.jwt_token = token,
                              !.openshift_token = choice.openshift_token,
                              !.supplied = openshift_token,
                              !.began_filled = mcp_endpoints_cache # JNull])
    /\ UNCHANGED <<relay, extractor, routing, evaluating, mcp_endpoints_cache, toolgroups, listings>>

\* A variant of the step below that goes to the listing call although the
\* cache is filled.
RefreshCache(t) ==
    /\ constructions[t].pc = "get_endpoints"
    /\ mcp_endpoints_cache # JNull
    /\ Set(t, [constructions[t] EXCEPT !.pc = "listing"])
    /\ UNCHANGED <<relay, extractor, routing, evaluating, mcp_endpoints_cache, toolgroups, listings, started>>

\* _get_mcp_endpoints finds the cache filled and returns it.
UseCache(t) ==
    /\ constructions[t].pc = "get_endpoints"
    /\ mcp_endpoints_cache # JNull
    /\ Set(t, [constructions[t] EXCEPT !.pc = "build", !.outcome = "cached",
                                       !.mcp_endpoints = mcp_endpoints_cache])
    /\ UNCHANGED <<relay, extractor, routing, evaluating, mcp_endpoints_cache, toolgroups, listings, started>>

\* _get_mcp_endpoints finds the cache empty and goes on to the listing call.
MissCache(t) ==
    /\ constructions[t].pc = "get_endpoints"
    /\ mcp_endpoints_cache = JNull
    /\ Set(t, [constructions[t] EXCEPT !.pc = "listing"])
    /\ UNCHANGED <<relay, extractor, routing, evaluating, mcp_endpoints_cache, toolgroups, listings, started>>

\* client.toolgroups.list() returns: the endpoint map is built and cached.
ListingReturns(t) ==
    /\ constructions[t].pc = "listing"
    /\ listings' = listings + 1
    /\ mcp_endpoints_cache' = JObj(Discovered(toolgroups))
    /\ Set(t, [constructions[t] EXCEPT !.pc = "build", !.outcome = "listed",
                                       !.mcp_endpoints = mcp_endpoints_cache'])
    /\ UNCHANGED <<relay, extractor, routing, evaluating, toolgroups, started>>

\* client.toolgroups.list() raises: the fallback map is used and cached.
ListingRaises(t) ==
    /\ constructions[t].pc = "listing"
    /\ listings' = listings + 1
    /\ mcp_endpoints_cache' = FallbackEndpoints
    /\ Set(t, [constructions[t] EXCEPT !.pc = "build", !.outcome = "listing_raised",
                                       !.mcp_endpoints = FallbackEndpoints])
    /\ UNCHANGED <<relay, extractor, routing, evaluating, toolgroups, started>>

\* A variant of the step below in which the token is kept on the shared
\* object: the client is built with the token of whichever request set it
\* last.
BuildClientWithSharedToken(t) ==
    /\ constructions[t].pc = "build"
    /\ LET other == CHOOSE u \in Threads : u # t
           token == IF Truthy(constructions[other].jwt_token)
                    THEN constructions[other].jwt_token
                    ELSE constructions[t].jwt_token
       IN Set(t, [constructions[t] EXCEPT
                     !.pc = "done",
                     !.client = ClientConfig(constructions[t].kind, token,
                                             constructions[t].openshift_token,
                                             constructions[t].mcp_endpoints)])
    /\ UNCHANGED <<relay, extractor, routing, evaluating, mcp_endpoints_cache, toolgroups, listings, started>>

\* The MCP headers are added and the client is constructed and returned.
BuildClient(t) ==
    /\ constructions[t].pc = "build"
    /\ Set(t, [constructions[t] EXCEPT
                  !.pc = "done",
                  !.client = ClientConfig(constructions[t].kind, constructions[t].jwt_token,
                                          constructions[t].openshift_token,
                                          constructions[t].mcp_endpoints)])
    /\ UNCHANGED <<relay, extractor, routing, evaluating, mcp_endpoints_cache, toolgroups, listings, started>>

\* The upstream's tool registry changes.
RegistryChanges(registry) ==
    /\ registry # toolgroups
    /\ toolgroups' = registry
    /\ UNCHANGED <<relay, extractor, routing, evaluating, mcp_endpoints_cache, listings, constructions, started>>

FactoryNext ==
    \/ \E t \in Threads, kind \in {"client", "client_with_openshift_token"}, token \in Tokens :
          BeginConstruction(t, kind, token)
    \/ \E t \in Threads, token \in Tokens, openshift_token \in OpenshiftTokens :
          BeginToolsRequest(t, token, openshift_token)
    \/ \E t \in Threads :
          \/ UseCache(t)
          \/ MissCache(t)
          \/ ListingReturns(t)
          \/ ListingRaises(t)
          \/ BuildClient(t)
    \/ \E registry \in Registries : RegistryChanges(registry)

FactorySpec == FactoryInit /\ [][FactoryNext]_vars

\* A construction that began when the cache was already filled.
Later(t) == constructions[t].pc # "idle" /\ constructions[t].began_filled

\* C16: once the endpoint cache is filled, a later construction for a request
\* with a credential issues no listing call and uses the cached map, and the
\* cached map never changes again, whatever the registry does.
C16_CacheFilledOnce ==
    /\ [](\A t \in Threads :
             Later(t) /\ Truthy(constructions[t].jwt_token) =>
                /\ constructions[t].pc # "listing"
                /\ constructions[t].outcome \in {"none", "cached"}
                /\ constructions[t].outcome = "cached" =>
                      constructions[t].mcp_endpoints = mcp_endpoints_cache)
    /\ [][mcp_endpoints_cache # JNull => mcp_endpoints_cache' = mcp_endpoints_cache]_vars

\* The expected credential on the MCP headers of a construction.
HeaderToken(t) ==
    IF constructions[t].kind = "client" THEN constructions[t].jwt_token.s
    ELSE constructions[t].openshift_token.s

\* C17: when the listing call raises for a request with a credential, the
\* construction goes on with the single endpoint mcp::openshift and returns
\* a client whose api_key is the request's credential and whose MCP headers
\* authorise that endpoint.
C17_ListingFailureFallsBack ==
    \A t \in Threads :
        constructions[t].outcome = "listing_raised" =>
            /\ constructions[t].pc \in {"build", "done"}
            /\ Truthy(constructions[t].jwt_token)
            /\ constructions[t].mcp_endpoints
                  = JObj(<< <<"mcp::openshift", JStr("http://ocp-mcp-server:8000/sse")>> >>)
            /\ constructions[t].pc = "done" =>
                  /\ constructions[t].client # JNull
                  /\ constructions[t].client.api_key = constructions[t].jwt_token
                  /\ constructions[t].client.mcp_headers # JNull
                  /\ <<"http://ocp-mcp-server:8000/sse", Bearer(HeaderToken(t))>>
                        \in constructions[t].client.mcp_headers.entries
                  /\ \A entry \in constructions[t].client.mcp_headers.entries :
                        entry[2] = Bearer(HeaderToken(t))

\* A client was returned after the listing raised while the registry held
\* other servers, for each of the two factories.
C17_Witness ==
    /\ toolgroups # <<>>
    /\ constructions[1].pc = "done" /\ constructions[1].outcome = "listing_raised"
    /\ constructions[1].kind = "client"
    /\ constructions[2].pc = "done" /\ constructions[2].outcome = "listing_raised"
    /\ constructions[2].kind = "client_with_openshift_token"

----------------------------------------------------------------------------
(* The route handlers of the playground, evaluations and distribution      *)
(* blueprints.  A handler is a function of the request and of how the      *)
(* upstream behaves for it; requests are answered one at a time here.      *)

\* How the upstream answers the calls made for a request: it answers, it
\* raises some exception, or it raises AuthenticationError.
Outcomes == {"ok", "raises", "auth_error"}
\* str(e) of what the upstream raised
Raised(upstream) == IF upstream = "auth_error" THEN "invalid token" ELSE "upstream down"

\* The headers explored: none, a forwarded access token, and an
\* Authorization header that is no bearer credential.
RouteHeaders ==
    { NoHeaders,
      [NoHeaders EXCEPT !["x-forwarded-access-token"] = JStr("a")],
      [NoHeaders EXCEPT !["authorization"] = JStr("Basic u")] }

\* The responses
Page(lists) == [status |-> 200, kind |-> "page", error |-> "", lists |-> lists]
Json(status, error) == [status |-> status, kind |-> "json", error |-> error, lists |-> "none"]
EventStream == [status |-> 200, kind |-> "stream", error |-> "", lists |-> "none"]
\* An exception that leaves the view function: the application registers no
\* error handler, so the framework answers 500 with its own error page.
Unhandled(message) == [status |-> 500, kind |-> "error_page", error |-> message, lists |-> "none"]

TokenExpired == "Authentication token expired. Please refresh the page."
TokenExpiredReauth == "Authentication token expired. Please refresh the page to re-authenticate."
InvalidRequest == "Invalid request"
UnsupportedFormat == "Unsupported file format. Please upload a CSV or Excel file."

\* What a handler did: its response, whether it obtained a client from the
\* LlamaStackApi object, and the upstream calls it made with that client.
Result(resp, constructed, calls) ==
    [response |-> resp, constructed |-> constructed, calls |-> calls]

\* A page whose lists come from upstream calls inside try/except
ListsOrEmpty(upstream) == Page(IF upstream = "ok" THEN "filled" ELSE "empty")
\* A page whose lists come from upstream calls outside any try/except
ListsOrUnhandled(upstream) ==
    IF upstream = "ok" THEN Page("filled") ELSE Unhandled(Raised(upstream))
\* try: ... except AuthenticationError: 401 ... except Exception: 500
JsonOrError(upstream, ok, expired) ==
    CASE upstream = "ok" -> ok
      [] upstream = "auth_error" -> Json(401, expired)
      [] OTHER -> Json(500, Raised(upstream))

\* playground.chat
ChatRoute(r, token) ==
    IF r.method = "GET" THEN Result(ListsOrEmpty(r.upstream), TRUE, <<"models.list">>)
    ELSE IF r.form = "stream"
    THEN Result(EventStream, TRUE, <<"inference.chat_completion">>)
    ELSE Result(IF r.upstream = "ok" THEN Json(200, "") ELSE Json(500, Raised(r.upstream)),
                TRUE, <<"inference.chat_completion">>)

\* playground.rag
RagRoute(r, token) ==
    IF r.method = "GET"
    THEN IF ~Truthy(token) THEN Result(Page("empty"), FALSE, <<>>)
         ELSE Result(ListsOrEmpty(r.upstream), TRUE,
                     IF r.upstream = "ok" THEN <<"models.list", "vector_dbs.list">>
                     ELSE <<"models.list">>)
    ELSE IF r.form \in {"files", "files_unnamed"}
    THEN IF ~Truthy(token) THEN Result(Json(401, TokenExpired), FALSE, <<>>)
         ELSE IF r.form = "files"
         THEN Result(JsonOrError(r.upstream, Json(200, ""), TokenExpired), TRUE,
                     IF r.upstream = "ok"
                     THEN <<"providers.list", "vector_dbs.register", "rag_tool.insert">>
                     ELSE <<"providers.list">>)
         ELSE Result(Json(400, InvalidRequest), FALSE, <<>>)
    ELSE Result(Json(400, InvalidRequest), FALSE, <<>>)

\* playground.rag_query
RagQueryRoute(r, token) ==
    IF r.form = "Agent-based"
    THEN Result(Json(501, "Agent-based RAG streaming not yet implemented in Flask"), TRUE, <<>>)
    ELSE Result(JsonOrError(r.upstream, EventStream, TokenExpiredReauth), TRUE,
                IF r.upstream = "ok" THEN <<"rag_tool.query", "inference.chat_completion">>
                ELSE <<"rag_tool.query">>)

\* playground.tools
ToolsRoute(r, token) ==
    IF r.method = "GET"
    THEN IF ~Truthy(token) THEN Result(Page("empty"), FALSE, <<>>)
         ELSE Result(ListsOrEmpty(r.upstream), TRUE,
                     IF r.upstream = "ok" THEN <<"models.list", "toolgroups.list">>
                     ELSE <<"models.list">>)
    ELSE IF ~Truthy(token) THEN Result(Json(401, TokenExpiredReauth), FALSE, <<>>)
    ELSE IF r.form = "empty"
    THEN Result(Json(400, "Invalid request: missing JSON data"), FALSE, <<>>)
    ELSE Result(JsonOrError(r.upstream, EventStream, TokenExpiredReauth), TRUE,
                IF r.upstream = "ok" THEN <<"agents.create", "agents.session.create"
                                            , "agents.turn.create">>
                ELSE <<"agents.create">>)

\* playground.get_tools: a failing listing of one tool group leaves that
\* group empty in the answer.
GetToolsRoute(r, token) ==
    IF ~Truthy(token) THEN Result(Json(401, TokenExpired), FALSE, <<>>)
    ELSE Result(Json(200, ""), TRUE, IF r.form = "ids" THEN <<"tools.list">> ELSE <<>>)

\* playground.get_vector_dbs
GetVectorDbsRoute(r, token) ==
    IF ~Truthy(token) THEN Result(Json(401, TokenExpired), FALSE, <<>>)
    ELSE Result(JsonOrError(r.upstream, Json(200, ""), TokenExpired), TRUE, <<"vector_dbs.list">>)

\* distribution.providers
ProvidersRoute(r, token) ==
    Result(ListsOrUnhandled(r.upstream), TRUE, <<"providers.list">>)

\* distribution.resources
ResourcesRoute(r, token) ==
    IF r.form \in {"models", "vector_dbs"}
    THEN Result(ListsOrUnhandled(r.upstream), TRUE, <<r.form \o ".list">>)
    ELSE Result(Page("empty"), TRUE, <<>>)

\* os.path.splitext(secure_filename(file.filename))[1].lower(), over the
\* file names explored
FileExt(filename) ==
    CASE filename \in {"data.csv", "DATA.CSV", "broken.csv"} -> ".csv"
      [] filename = "data.xlsx" -> ".xlsx"
      [] filename = "data.xls" -> ".xls"
      [] filename = "notes.txt" -> ".txt"
      [] OTHER -> ""

\* utils.process_dataset: a data frame, a (message, None) tuple for an
\* unsupported extension, or ValueError when the reader raises.
ProcessDataset(filename) ==
    IF FileExt(filename) \in {".csv", ".xlsx", ".xls"}
    THEN IF filename = "broken.csv"
         THEN [t |-> "raise", message |-> "Error processing file: no columns to parse"]
         ELSE [t |-> "df"]
    ELSE [t |-> "tuple", message |-> UnsupportedFormat]

\* evaluations.app_eval: the upload reads df.to_dict of whatever
\* process_dataset returned, and answers 400 with str(e) of any exception.
AppEvalRoute(r, token) ==
    IF r.method = "GET"
    THEN Result(ListsOrUnhandled(r.upstream), TRUE, <<"scoring_functions.list">>)
    ELSE IF r.form = "file"
    THEN LET df == ProcessDataset(r.filename)
         IN Result(CASE df.t = "df" -> Json(200, "")
                     [] df.t = "tuple" -> Json(400, "'tuple' object has no attribute 'to_dict'")
                     [] OTHER -> Json(400, df.message),
                   TRUE, <<>>)
    ELSE IF r.form = "run_evaluation" THEN Result(EventStream, TRUE, <<>>)
    ELSE Result(Json(400, InvalidRequest), TRUE, <<>>)

\* evaluations.native_eval
NativeEvalRoute(r, token) ==
    IF r.method = "GET"
    THEN Result(ListsOrUnhandled(r.upstream), TRUE,
                IF r.upstream = "ok" THEN <<"benchmarks.list", "models.list">>
                ELSE <<"benchmarks.list">>)
    ELSE IF r.form = "define_candidate" THEN Result(Json(200, ""), TRUE, <<>>)
    ELSE Result(Json(400, InvalidRequest), TRUE, <<>>)

\* The requests explored, per route: method, form of the body or query.
Forms(route, method) ==
    CASE route = "chat" /\ method = "POST" -> {"stream", "no_stream"}
      [] route = "rag" /\ method = "POST" -> {"files", "files_unnamed", "none"}
      [] route = "rag_query" -> {"Direct", "Agent-based"}
      [] route = "tools" /\ method = "POST" -> {"json", "json_openshift", "empty"}
      [] route = "get_tools" -> {"ids", "no_ids"}
      [] route = "resources" -> {"models", "vector_dbs", "other"}
      [] route = "app_eval" /\ method = "POST" ->
            {"file", "file_unnamed", "none", "json_other", "run_evaluation"}
      [] route = "native_eval" /\ method = "POST" -> {"none", "define_candidate"}
      [] OTHER -> {"none"}

Methods(route) ==
    CASE route \in {"chat", "rag", "tools", "app_eval", "native_eval"} -> {"GET", "POST"}
      [] route \in {"rag_query", "get_tools"} -> {"POST"}
      [] OTHER -> {"GET"}

FileNames == {"data.csv", "DATA.CSV", "broken.csv", "data.xlsx", "data.xls", "notes.txt", "data"}

RouteRequests(route) ==
    UNION { UNION { { [route |-> route, method |-> method, form |-> form,
                       filename |-> filename, headers |-> h, upstream |-> upstream] :
                         filename \in IF form = "file" THEN FileNames ELSE {""},
                         h \in RouteHeaders, upstream \in Outcomes }
                    : form \in Forms(route, method) }
            : method \in Methods(route) }

RouteInit ==
    /\ RelayIdle
    /\ ExtractorIdle
    /\ mcp_endpoints_cache = JNull
    /\ toolgroups \in Registries
    /\ listings = 0
    /\ constructions = [t \in Threads |-> Idle]
    /\ started = 0
    /\ RoutingIdle
    /\ EvaluatingIdle

\* A handler answers request r.  The client it obtains discovers the MCP
\* endpoints when the request has a token and the cache is empty.
Answer(r, result) ==
    LET token == GetJwtToken(r.headers)
        discovers == result.constructed /\ Truthy(token) /\ mcp_endpoints_cache = JNull
    IN /\ headers' = r.headers
       /\ jwt_token' = token
       /\ route_request' = r
       /\ response' = result.response
       /\ upstream_calls' = IF discovers THEN <<"toolgroups.list">> \o result.calls
                            ELSE result.calls
       /\ mcp_endpoints_cache' =
             IF ~discovers THEN mcp_endpoints_cache
             ELSE IF r.upstream = "ok" THEN JObj(Discovered(toolgroups))
             ELSE FallbackEndpoints
       /\ listings' = IF discovers THEN listings + 1 ELSE listings
       /\ UNCHANGED <<relay, evaluating, earlier, toolgroups, constructions, started>>

Chat ==
    \E r \in RouteRequests("chat") :
        /\ r.route = "chat"
        /\ Answer(r, ChatRoute(r, GetJwtToken(r.headers)))
Rag ==
    \E r \in RouteRequests("rag") :
        /\ r.route = "rag"
        /\ Answer(r, RagRoute(r, GetJwtToken(r.headers)))
RagQuery ==
    \E r \in RouteRequests("rag_query") :
        /\ r.route = "rag_query"
        /\ Answer(r, RagQueryRoute(r, GetJwtToken(r.headers)))
Tools ==
    \E r \in RouteRequests("tools") :
        /\ r.route = "tools"
        /\ Answer(r, ToolsRoute(r, GetJwtToken(r.headers)))
GetTools ==
    \E r \in RouteRequests("get_tools") :
        /\ r.route = "get_tools"
        /\ Answer(r, GetToolsRoute(r, GetJwtToken(r.headers)))
GetVectorDbs ==
    \E r \in RouteRequests("get_vector_dbs") :
        /\ r.route = "get_vector_dbs"
        /\ Answer(r, GetVectorDbsRoute(r, GetJwtToken(r.headers)))
Providers ==
    \E r \in RouteRequests("providers") :
        /\ r.route = "providers"
        /\ Answer(r, ProvidersRoute(r, GetJwtToken(r.headers)))
Resources ==
    \E r \in RouteRequests("resources") :
        /\ r.route = "resources"
        /\ Answer(r, ResourcesRoute(r, GetJwtToken(r.headers)))
AppEval ==
    \E r \in RouteRequests("app_eval") :
        /\ r.route = "app_eval"
        /\ Answer(r, AppEvalRoute(r, GetJwtToken(r.headers)))
NativeEval ==
    \E r \in RouteRequests("native_eval") :
        /\ r.route = "native_eval"
        /\ Answer(r, NativeEvalRoute(r, GetJwtToken(r.headers)))

RouteNext ==
    \/ Chat \/ Rag \/ RagQuery \/ Tools \/ GetTools \/ GetVectorDbs
    \/ Providers \/ Resources \/ AppEval \/ NativeEval

RouteSpec == RouteInit /\ [][RouteNext]_vars

\* The request last answered carried a credential.
HasCredential == jwt_token # JNull
Answered(route, method) ==
    route_request.route = route /\ route_request.method = method

\* The page routes that fetch upstream listings.
PageRoutes == {"chat", "rag", "tools", "app_eval", "native_eval", "providers", "resources"}

\* C18: a GET to a page route whose request has no credential, or for which
\* the upstream listing raises, is answered with the rendered page, never
\* with an error response, and the page's lists are empty when the listing
\* raised.
C18_PagesRenderOnFailure ==
    \A route \in PageRoutes :
        Answered(route, "GET") /\ (~HasCredential \/ route_request.upstream # "ok") =>
            /\ response.status = 200
            /\ response.kind = "page"
            /\ route_request.upstream # "ok" => response.lists = "empty"

\* The action endpoints.
ActionRequest ==
    \/ Answered("chat", "POST")
    \/ Answered("rag_query", "POST")
    \/ Answered("rag", "POST") /\ route_request.form \in {"files", "files_unnamed"}
    \/ Answered("tools", "POST")
    \/ Answered("get_tools", "POST")
    \/ Answered("get_vector_dbs", "GET")

\* The upstream calls of the handler itself, without the endpoint discovery
\* of the client it obtained.
HandlerCalls == SelectSeq(upstream_calls, LAMBDA call : call # "toolgroups.list")

\* C19: an action endpoint answers a request without a credential with a
\* 401 JSON error and makes no upstream call for it, and answers 401 as well
\* when a call it makes upstream fails with an authentication error.
C19_ActionsNeedCredential ==
    ActionRequest =>
        /\ ~HasCredential =>
              /\ response.status = 401 /\ response.kind = "json" /\ response.error # ""
              /\ upstream_calls = <<>>
        /\ HasCredential /\ route_request.upstream = "auth_error" /\ HandlerCalls # <<>> =>
              response.status = 401 /\ response.kind = "json"

\* C20: a dataset upload to app_eval whose file is neither .csv, .xlsx nor
\* .xls is answered 400 with the unsupported-format message as its error,
\* and a POST with neither a named file nor a JSON body is answered 400
\* with a JSON error.
C20_UnsupportedUploadMessage ==
    Answered("app_eval", "POST") =>
        /\ route_request.form = "file" /\ route_request.filename \in {"notes.txt", "data"} =>
              response = Json(400, "Unsupported file format. Please upload a CSV or Excel file.")
        /\ route_request.form \in {"none", "file_unnamed"} =>
              response.status = 400 /\ response.kind = "json" /\ response.error # ""

\* The client construction of thread t has returned a client for a
\* request that carried a JWT.
Built(t) == constructions[t].pc = "done" /\ Truthy(constructions[t].jwt_token)

\* Every endpoint of the construction's endpoint map has an MCP header, and
\* every MCP header of the client is the bearer header of this token.
HeadersCarry(t, token) ==
    LET c == constructions[t]
        endpoints == c.mcp_endpoints.pairs
    IN IF endpoints = <<>> THEN c.client.mcp_headers = JNull
       ELSE /\ c.client.mcp_headers # JNull
            /\ \A i \in 1..Len(endpoints) :
                  \E entry \in c.client.mcp_headers.entries : entry[1] = endpoints[i][2].s
            /\ \A entry \in c.client.mcp_headers.entries :
                  entry[2] = [Authorization |-> "Bearer " \o token]

\* C21: the client built for a request that supplied a non-blank
\* openshift_token has the JWT as api_key and the stripped OpenShift token,
\* not the JWT, on every MCP endpoint; when none or a blank one was supplied
\* every MCP endpoint carries the JWT.
C21_OpenshiftTokenOnMcpHeaders ==
    \A t \in Threads :
        Built(t) =>
            /\ constructions[t].client.api_key = constructions[t].jwt_token
            /\ IF constructions[t].supplied \in {JStr(" os "), JStr("os")}
               THEN HeadersCarry(t, "os")
               ELSE HeadersCarry(t, constructions[t].jwt_token.s)

\* Two tools requests were served from a registry with several servers: one
\* supplied an OpenShift token, the other a blank one.
C21_Witness ==
    /\ Built(1) /\ constructions[1].supplied = JStr(" os ")
    /\ Len(constructions[1].mcp_endpoints.pairs) = 2
    /\ Built(2) /\ constructions[2].supplied = JStr("  ")
    /\ Len(constructions[2].mcp_endpoints.pairs) = 2

\* C22: whatever the interleaving, the client returned to a request has
\* that request's own token as api_key (none when it has none), and every
\* MCP header of the client carries that request's own credential, never
\* the different token of a concurrent request.
C22_OwnTokenUnderConcurrency ==
    \A t \in Threads :
        constructions[t].pc = "done" =>
            /\ constructions[t].client.api_key = constructions[t].jwt_token
            /\ ~Truthy(constructions[t].jwt_token) => constructions[t].client.mcp_headers = JNull
            /\ constructions[t].client.mcp_headers # JNull =>
                  \A entry \in constructions[t].client.mcp_headers.entries :
                      /\ entry[2] = Bearer(HeaderToken(t))
                      /\ \A u \in Threads :
                            /\ Truthy(constructions[u].jwt_token)
                            /\ constructions[u].jwt_token # constructions[t].jwt_token
                            => entry[2] # Bearer(constructions[u].jwt_token.s)

\* Two requests with different tokens raced on the empty cache: both listed,
\* got different endpoint maps, and both clients were returned.
C22_Witness ==
    /\ Built(1) /\ Built(2)
    /\ constructions[1].jwt_token # constructions[2].jwt_token
    /\ constructions[1].kind = "client" /\ constructions[2].kind = "client"
    /\ constructions[1].outcome \in {"listed", "listing_raised"}
    /\ constructions[2].outcome \in {"listed", "listing_raised"}
    /\ constructions[1].mcp_endpoints # constructions[2].mcp_endpoints
    /\ constructions[1].client.mcp_headers # JNull
    /\ constructions[2].client.mcp_headers # JNull

\* C23: the relay requests one upstream event at a time and only while no
\* terminal frame has been emitted; the frames of an event are appended to
\* those of the events before it, which are never reordered or withdrawn.
C23_PullBasedRelay ==
    [][/\ Len(frames') >= Len(frames)
       /\ SubSeq(frames', 1, Len(frames)) = frames
       /\ consumed' # consumed =>
             /\ Len(consumed') = Len(consumed) + 1
             /\ SubSeq(consumed', 1, Len(consumed)) = consumed
             /\ DoneFrames = {}
             /\ pc = "streaming"
       /\ pc = "closed" => consumed' = consumed /\ frames' = frames]_vars

\* A tool-calling stream relayed three events, each with a frame of its own,
\* and then ended with its terminal frame.
C23_Witness ==
    /\ Closed /\ ToolsMode
    /\ Len(consumed) = 3
    /\ Len(frames) >= 4
    /\ IsDone(LastFrame)

\* s is a prefix of t
IsPrefix(s, t) == Len(s) <= Len(t) /\ SubSeq(t, 1, Len(s)) = s

\* The content frames of the stream, by position.
ContentFrames == { i \in 1..Len(frames) : IsContent(frames[i]) }

\* C24: every step that changes the response buffer emits a content frame
\* holding the whole buffer as it then is; each content frame's content has
\* the content of every earlier content frame as a prefix; and a terminal
\* content frame carries the whole buffer (the placeholder when it is empty).
C24_BufferFlushedOnAppend ==
    /\ [](/\ \A i, j \in ContentFrames :
                i < j => IsPrefix(frames[i].content, frames[j].content)
          /\ Closed /\ frames # <<>> /\ IsContent(LastFrame) /\ IsDone(LastFrame) =>
                \/ LastFrame.content = full_response
                \/ full_response = "" /\ LastFrame.content = "No response generated")
    /\ [][full_response' # full_response =>
             \E i \in (Len(frames) + 1)..Len(frames') :
                 IsContent(frames'[i]) /\ frames'[i].content = full_response']_vars

\* The text deltas, in order, of the step_progress events received after
\* the last step_complete of any type.
RECURSIVE TextSinceLastStep(_)
TextSinceLastStep(events) ==
    IF events = <<>> THEN ""
    ELSE LET ev == events[Len(events)]
             before == SubSeq(events, 1, Len(events) - 1)
         IN IF ~ev.has_payload THEN TextSinceLastStep(before)
            ELSE IF ev.event_type = "step_complete" THEN ""
            ELSE IF ev.event_type = "step_progress" /\ ev.delta.attr \in {"text", "content"}
            THEN TextSinceLastStep(before) \o ev.delta.value
            ELSE TextSinceLastStep(before)

\* C25: in ReAct mode the step buffer, which is what an inference
\* step_complete parses, is always the concatenation of the text deltas
\* received since the last step_complete of any type, and every
\* step_complete leaves it empty.
C25_StepBufferPerStep ==
    /\ [](agent_type = "ReAct" /\ pc = "streaming" =>
             current_step_content = TextSinceLastStep(consumed))
    /\ [][agent_type = "ReAct" /\ Relays("step_complete") /\ pc' = "streaming" =>
             current_step_content' = ""]_vars

\* Text arrived for one step, the step completed without being an inference
\* step, and text arrived for the next: the buffer holds the new text only.
C25_Witness ==
    /\ agent_type = "ReAct" /\ pc = "streaming"
    /\ Len(consumed) = 3
    /\ consumed[1] = StepProgress("text", "Hel")
    /\ consumed[2].event_type = "step_complete"
    /\ consumed[3] = StepProgress("text", "lo")
    /\ current_step_content = "lo"
    /\ full_response = "Hello"

----------------------------------------------------------------------------
(* The evaluation streams: app_eval.generate scores the rows of a dataset, *)
(* native_eval.generate generates and scores them.  A row is described by  *)
(* how its evaluation goes.                                                *)

\* The call answers and everything is recorded ("ok"); the scoring or
\* evaluation call raises; the answer has no generation (native_eval only)
\* or no score of the scoring function, which raises while the row is being
\* recorded; or serialising the answer for the progress frame raises.
RowKinds(route) ==
    {"ok", "call_raises", "score_missing", "report_raises"}
    \cup (IF route = "native_eval" THEN {"generation_missing"} ELSE {})

\* The columns of a row's results, in the order the loop body records them.
ColumnOrder(route) ==
    IF route = "app_eval" THEN <<"input_query", "fn">>
    ELSE <<"input_query", "generated_answer", "fn">>

\* How many of them get their key in output_res before the loop body ends or
\* raises: the key of the scoring function is created before its score is
\* looked up.
KeyedCount(route, kind) ==
    CASE kind \in {"ok", "report_raises", "score_missing"} -> Len(ColumnOrder(route))
      [] kind = "call_raises" -> 0
      [] OTHER -> 1

\* How many of them get the row's entry.
RecordedCount(route, kind) ==
    CASE kind \in {"ok", "report_raises"} -> Len(ColumnOrder(route))
      [] kind = "call_raises" -> 0
      [] kind = "generation_missing" -> 1
      [] OTHER -> Len(ColumnOrder(route)) - 1

\* str(e) of what the loop body raised
RowError(kind) ==
    CASE kind = "call_raises" -> "upstream down"
      [] kind = "generation_missing" -> "list index out of range"
      [] kind = "score_missing" -> "'fn'"
      [] OTHER -> "Object is not JSON serializable"

EvalRows(route) ==
    UNION { [1..n -> RowKinds(route)] : n \in 0..MaxRows }

EvalInit ==
    /\ RelayIdle
    /\ ExtractorIdle
    /\ FactoryIdle
    /\ RoutingIdle
    /\ eval_route \in {"app_eval", "native_eval"}
    /\ rows \in EvalRows(eval_route)
    /\ row_index = 0
    /\ output_res = [c \in {} |-> <<>>]
    /\ eval_frames = <<>>
    /\ eval_pc = "rows"

\* output_res after the loop body created the keys of the first keyed
\* columns and appended the entry of row i to the first n of them
Record(i, keyed, n) ==
    LET order == ColumnOrder(eval_route)
    IN [c \in DOMAIN output_res \cup { order[k] : k \in 1..keyed } |->
          LET entries == IF c \in DOMAIN output_res THEN output_res[c] ELSE <<>>
          IN IF \E k \in 1..n : order[k] = c THEN Append(entries, i) ELSE entries]

\* One pass of the for loop over row i (counted from 0) of the given kind.
EvaluateRow(kind, frame) ==
    /\ rows[row_index + 1] = kind
    /\ output_res' = Record(row_index, KeyedCount(eval_route, kind),
                             RecordedCount(eval_route, kind))
    /\ eval_frames' = Append(eval_frames, frame)
    /\ row_index' = row_index + 1
    /\ UNCHANGED <<relay, extractor, factory, routing, eval_route, rows, eval_pc>>

ProgressFrame == [current |-> row_index + 1, total |-> Len(rows), done |-> FALSE]
RowErrorFrame(kind) == [error |-> RowError(kind), row |-> row_index]

\* The row is scored and recorded, and a progress frame is yielded.
RowScored ==
    /\ eval_pc = "rows" /\ row_index < Len(rows)
    /\ EvaluateRow("ok", ProgressFrame)
\* run_scoring / evaluate_rows raises: nothing is recorded for the row.
RowCallRaises ==
    /\ eval_pc = "rows" /\ row_index < Len(rows)
    /\ EvaluateRow("call_raises", RowErrorFrame("call_raises"))
\* Recording raises part-way: the columns recorded before keep their entry.
RowRecordRaises ==
    /\ eval_pc = "rows" /\ row_index < Len(rows)
    /\ \E kind \in {"generation_missing", "score_missing"} :
        EvaluateRow(kind, RowErrorFrame(kind))
\* Building the progress frame raises after the row was recorded.
RowReportRaises ==
    /\ eval_pc = "rows" /\ row_index < Len(rows)
    /\ EvaluateRow("report_raises", RowErrorFrame("report_raises"))

\* pd.DataFrame(output_res) after the loop: the final frame with the results
\* when the columns are of one length.
DataFrameBuilt ==
    /\ eval_pc = "rows"
    /\ row_index = Len(rows)
    /\ \A c, d \in DOMAIN output_res : Len(output_res[c]) = Len(output_res[d])
    /\ eval_frames' = Append(eval_frames,
                             [results |-> output_res, columns |-> DOMAIN output_res, done |-> TRUE])
    /\ eval_pc' = "closed"
    /\ UNCHANGED <<relay, extractor, factory, routing, eval_route, rows, row_index, output_res>>

\* pd.DataFrame(output_res) raises ValueError for columns of different
\* lengths, outside any try: generate raises and the stream breaks off.
DataFrameRaises ==
    /\ eval_pc = "rows"
    /\ row_index = Len(rows)
    /\ \E c, d \in DOMAIN output_res : Len(output_res[c]) # Len(output_res[d])
    /\ eval_pc' = "raised"
    /\ UNCHANGED <<relay, extractor, factory, routing, eval_route, rows, row_index,
                   output_res, eval_frames>>

EvalNext ==
    \/ RowScored
    \/ RowCallRaises
    \/ RowRecordRaises
    \/ RowReportRaises
    \/ DataFrameBuilt
    \/ DataFrameRaises

EvalSpec == EvalInit /\ [][EvalNext]_vars

\* The evaluation stream is over.
EvalOver == eval_pc \in {"closed", "raised"}

\* C27: in both evaluation streams a row that fails, in the call or while
\* its results are recorded, yields one error frame with the row's index
\* and the rows after it are still handled in order; the stream ends with
\* exactly one done: true frame, the last, whose result columns all hold the
\* same number of entries.
C27_EvaluationStreamEnds ==
    /\ \A i \in 1..row_index :
          /\ i <= Len(eval_frames)
          /\ rows[i] = "ok" => eval_frames[i] = [current |-> i, total |-> Len(rows),
                                                 done |-> FALSE]
          /\ rows[i] # "ok" => /\ "error" \in DOMAIN eval_frames[i]
                               /\ eval_frames[i].row = i - 1
    /\ EvalOver =>
          /\ row_index = Len(rows)
          /\ Len(eval_frames) = Len(rows) + 1
          /\ LET last == eval_frames[Len(eval_frames)]
             IN /\ "done" \in DOMAIN last /\ last.done
                /\ \A c, d \in last.columns :
                      Len(last.results[c]) = Len(last.results[d])
          /\ Cardinality({ i \in 1..Len(eval_frames) :
                              "done" \in DOMAIN eval_frames[i] /\ eval_frames[i].done }) = 1

----------------------------------------------------------------------------
(* The two end-of-turn fallbacks of the tools stream *)

\* This step is the fallback 'append turn_complete content': a turn_complete
\* event with a str or list content is relayed, its text goes to the end of
\* the buffer and a content frame is yielded for it.
TurnCompleteFallback ==
    /\ Relays("turn_complete")
    /\ RelayedEvent.content.t \in {"str", "list"}
    /\ full_response' = full_response \o TurnCompleteText(RelayedEvent.content)
    /\ Len(frames') = Len(frames) + 1

\* This step is the fallback 'synthesize summary from tool results': at the
\* end of the upstream the summary goes to the end of the buffer under its
\* heading.
SummaryFallback ==
    /\ ToolsMode /\ pc = "streaming" /\ pc' = "closed"
    /\ ToolResponsesOf(consumed) # <<>>
    /\ full_response' = full_response \o FoundHeader
                        \o FormatToolResultsSummary(ToolResponsesOf(consumed))

\* C28: in one stream at most one of the two end-of-turn fallbacks adds to
\* the buffer, whatever the events and in either agent mode: a stream runs
\* one handler from its first event to its last, content of turn_complete is
\* appended by the regular handler only and a summary of the tool results by
\* the ReAct handler only.
C28_OneFallbackPerStream ==
    [][ /\ pc = "streaming" => agent_type' = agent_type
        /\ TurnCompleteFallback => agent_type = "Regular"
        /\ SummaryFallback => agent_type = "ReAct" ]_vars

\* A ReAct stream that relayed a turn_complete event with content and ended
\* with the summary of its tool results.
C28_Witness ==
    /\ agent_type = "ReAct" /\ Closed /\ ending = "exhausted"
    /\ \E i \in 1..Len(consumed) :
          /\ IsEvent(consumed[i], "turn_complete")
          /\ consumed[i].content = JStr("Hello")
    /\ Len(frames) >= 2
    /\ ExpectedSummary # ""
    /\ frames[Len(frames) - 1] = ContentFrame(ExpectedSummary, FALSE)
    /\ full_response = FoundHeader \o ExpectedSummary

----------------------------------------------------------------------------
\* C29: the extractor returns None only if no probed header carries a
\* credential; in particular X-Forwarded-Authorization 'Bearer x' yields a
\* token even when an Authorization header that is not a Bearer one, or a
\* Bearer one with a blank token, is present.
C29_NoneOnlyWithoutCredential ==
    jwt_token = JNull => CredentialsIn(headers) = {}

----------------------------------------------------------------------------
(* The plain chat stream *)

\* A chunk of type 'progress' that carries a text delta.
IsProgressText(chunk) ==
    /\ chunk.has_event
    /\ chunk.event_type = "progress"
    /\ chunk.delta.attr = "text"

\* The text deltas of the 'progress' chunks, concatenated in order.
RECURSIVE ProgressText(_)
ProgressText(chunks) ==
    IF chunks = <<>> THEN ""
    ELSE ProgressText(SubSeq(chunks, 1, Len(chunks) - 1))
         \o (IF IsProgressText(chunks[Len(chunks)])
             THEN chunks[Len(chunks)].delta.value ELSE "")

\* C30: in the plain chat stream, when the upstream ends without error the
\* terminal frame's content is the concatenation, in order, of the text
\* deltas of all 'progress' chunks, and the frames before it, all done:
\* false, are as many as the progress chunks that carry a text delta; a
\* chunk of another type or without a text delta leaves the buffer as it is
\* and yields no frame.
C30_ChatTextFromProgressChunks ==
    /\ [](( agent_type = "Chat" /\ Closed /\ ending = "exhausted") =>
            /\ LastFrame = ContentFrame(ProgressText(consumed), TRUE)
            /\ \A i \in 1..(Len(frames) - 1) : IsContent(frames[i]) /\ ~frames[i].done
            /\ Len(frames) - 1
                 = Cardinality({ i \in 1..Len(consumed) : IsProgressText(consumed[i]) }))
    /\ [][ ( /\ agent_type = "Chat" /\ pc = "streaming"
             /\ Len(consumed') = Len(consumed) + 1
             /\ ~IsProgressText(consumed'[Len(consumed')]) )
           => (frames' = frames /\ full_response' = full_response) ]_vars

\* A chat stream that ended after a progress chunk with text, a chunk of
\* another type with text and a second progress chunk with text.
C30_Witness ==
    /\ agent_type = "Chat" /\ Closed /\ ending = "exhausted"
    /\ consumed = <<Chunk("progress", "text", "Hel"), Chunk("complete", "text", "lo"),
                    Chunk("progress", "text", "lo")>>
    /\ Len(frames) = 3
    /\ LastFrame = ContentFrame("Hello", TRUE)

====
